---------------------------- MODULE Spec2Model ----------------------------
(***************************************************************************)
(* The three in-process middlewares of x-poll as state machines:           *)
(*   - the fixed-window rate limiter   (src/lib/middleware/rate-limit.ts)  *)
(*   - the CSRF token store            (src/unnamed/part_003)              *)
(*   - the session activity tracker    (src/unnamed/part_001)              *)
(* with the wrappers, the hook and the routes that use them, the votes     *)
(* table, and the auth route's own sliding-window limiter.                 *)
(* Time is Date.now() in milliseconds; every duration keeps the value the  *)
(* source gives it.  A JavaScript Map is a function whose DOMAIN is the    *)
(* set of keys present.  JavaScript strings that the code tests for        *)
(* truthiness keep "" as their falsy value.                                *)
(***************************************************************************)
EXTENDS Integers, Sequences, FiniteSets, TLC

VARIABLES
    now,                \* Date.now(), shared by the three stores
    ticks,              \* number of clock advances so far
    requestCounts,      \* rate-limit.ts:4   key -> [count, resetTime]
    rlLast,             \* the checkRateLimit call just made, or NoCall
    rlObs,              \* observer: per key, the window it saw open and the calls allowed in it
    csrfTokens,         \* part_003:21       hashedToken -> CSRFToken
    csrfIssued,         \* observer: token -> [userId, at] of every token generated
    csrfLast,           \* the CSRF operation just made, or NoCall
    sessionActivities,  \* part_001:168      userId -> SessionActivity
    sessLast,           \* the session operation just made, or NoCall
    sessObs,            \* observer: per user, first/last tracked time and warnings returned
    wrl,                \* the withRateLimit call in flight, or NoCall
    guardLast,          \* the withCSRFProtection / withSessionValidation call just made, or NoCall
    hook,               \* useCSRF: the hook's state and its protectedFetch call
    votes,              \* the rows of the votes table
    subs,               \* the vote submissions in flight: id -> its position and result
    rateLimit,          \* auth route.ts:6   ip -> the timestamps of the requests let through
    authLast,           \* the POST of the auth route just made, or NoCall
    authObs,            \* observer: per ip, the times at which authentication was reached
    rlLog,              \* observer: per key, the times of the calls checkRateLimit allowed
    rlShadow,           \* observer: requestCounts as it would be had no sweep ever run
    inFlight            \* the POSTs of the vote route in flight: id -> its position

vars == <<now, ticks, requestCounts, rlLast, rlObs, csrfTokens, csrfIssued, csrfLast,
          sessionActivities, sessLast, sessObs, wrl, guardLast, hook, votes, subs,
          rateLimit, authLast, authObs, rlLog, rlShadow, inFlight>>

rlVars   == <<requestCounts, rlLast, rlObs>>
csrfVars == <<csrfTokens, csrfIssued, csrfLast>>
sessVars == <<sessionActivities, sessLast, sessObs>>
mwVars   == <<wrl, guardLast>>
hookVars == <<hook>>
voteVars == <<votes, subs>>
authVars == <<rateLimit, authLast, authObs>>
obsVars  == <<rlLog, rlShadow>>
routeVars == <<inFlight>>

NoCall == [op |-> "none"]

\* a slot of the vote route with no request in it
Idle == [pc |-> "idle"]

\* useCSRF as it is mounted: nobody signed in, no token in its state (<< >>
\* is null), no protectedFetch call made
HookMounted ==
    [op |-> "none", user |-> FALSE, csrfToken |-> << >>, closure |-> << >>,
     sent |-> << >>, refetched |-> FALSE, first |-> NoCall, last |-> NoCall,
     result |-> NoCall]

EmptyMap == [k \in {} |-> {}]

\* Map.prototype.set / delete on a Map modelled as a function
MapSet(m, k, v) == [x \in DOMAIN m \cup {k} |-> IF x = k THEN v ELSE m[x]]
MapDelete(m, k) == [x \in DOMAIN m \ {k} |-> m[x]]

\* Math.ceil(x / d) for an integer x and d > 0 (\div rounds down)
CeilDiv(x, d) == -((-x) \div d)

----------------------------------------------------------------------------
(***************************************************************************)
(* Bounds of the model.                                                    *)
(***************************************************************************)
\* clock advances in one behaviour
MaxTicks == 2
\* buckets alive in requestCounts at once
MaxBuckets == 2
\* maxRequests per limit class.  The source sets 100, 10, 50 and 20; the
\* code reads maxRequests only in `count >= maxRequests` and in
\* `maxRequests - count`, so a smaller quota has the same cases.
MaxRequestsDefault == 3
MaxRequestsCreatePoll == 2
MaxRequestsVote == 3
MaxRequestsAuth == 2
\* CSRF tokens generated in one behaviour, and clock advances of the CSRF store
MaxTokens == 2
MaxCsrfTicks == 2
\* clock advances of the session tracker
MaxSessTicks == 2
\* CSRF tokens issued while the guards are exercised
MaxGuardTokens == 1
\* characters in a user id or a header value given to getClientId
MaxIdLen == 2
\* vote submissions made in one behaviour
MaxSubmissions == 2
\* POSTs of the vote route in flight at once
MaxInFlight == 2
\* clock advances while the rate limiter's calls are logged
MaxTraceTicks == 2
\* clock advances of the auth route's limiter
MaxAuthTicks == 2

----------------------------------------------------------------------------
(***************************************************************************)
(* Rate limiter                                                            *)
(***************************************************************************)
RATE_LIMITS ==
    [ default    |-> [maxRequests |-> MaxRequestsDefault,    windowMs |-> 15 * 60 * 1000],
      createPoll |-> [maxRequests |-> MaxRequestsCreatePoll, windowMs |-> 60 * 60 * 1000],
      vote       |-> [maxRequests |-> MaxRequestsVote,       windowMs |-> 15 * 60 * 1000],
      auth       |-> [maxRequests |-> MaxRequestsAuth,       windowMs |-> 15 * 60 * 1000] ]

RateLimitType == DOMAIN RATE_LIMITS

\* A user id, a header value and a client identity are strings, modelled as
\* sequences of characters; << >> is '' (and stands for an undefined userId,
\* which is falsy like '').  A header is [present, value].
NoHeader == [present |-> FALSE]
Header(v) == [present |-> TRUE, value |-> v]

EmptyString == << >>
UserPrefix  == <<"u", "s", "e", "r", ":">>
IpPrefix    == <<"i", "p", ":">>
Unknown     == <<"u", "n", "k", "n", "o", "w", "n">>

\* s.split(',')[0]: the characters of s before its first comma
SplitHead(s) ==
    LET commas == {i \in 1..Len(s) : s[i] = ","}
    IN  IF commas = {} THEN s
        ELSE SubSeq(s, 1, (CHOOSE i \in commas : \A j \in commas : i <= j) - 1)

\* forwarded?.split(',')[0] || realIp || 'unknown', x-real-ip read before x-forwarded-for
ClientIp_RealIpFirst(request) ==
    LET first == IF request.forwarded.present THEN SplitHead(request.forwarded.value)
                 ELSE EmptyString
        real  == IF request.realIp.present THEN request.realIp.value ELSE EmptyString
    IN  IF real # EmptyString THEN real ELSE IF first # EmptyString THEN first ELSE Unknown

\* forwarded?.split(',')[0] || realIp || 'unknown'
ClientIp(request) ==
    LET first == IF request.forwarded.present THEN SplitHead(request.forwarded.value)
                 ELSE EmptyString
        real  == IF request.realIp.present THEN request.realIp.value ELSE EmptyString
    IN  IF first # EmptyString THEN first ELSE IF real # EmptyString THEN real ELSE Unknown

\* `user:${userId}` for a truthy userId, `ip:${ip}` otherwise
getClientId(request, userId) ==
    IF userId # EmptyString THEN UserPrefix \o userId ELSE IpPrefix \o ClientIp(request)

\* `${type}:${clientId}`
RateKey(type, clientId) == <<type, ":">> \o clientId

\* cleanupExpiredEntries that also deletes at the reset time (>= for >)
cleanupExpiredEntries_AtReset(store, t) ==
    [k \in {x \in DOMAIN store : ~(t >= store[x].resetTime)} |-> store[k]]

\* cleanupExpiredEntries with Date.now() = t
cleanupExpiredEntries(store, t) ==
    [k \in {x \in DOMAIN store : ~(t > store[x].resetTime)} |-> store[k]]

\* checkRateLimit with the quota test off by one (count > maxRequests)
checkRateLimit_QuotaOffByOne(store, key, config, t) ==
    IF key \notin DOMAIN store \/ t > store[key].resetTime
    THEN [ store  |-> MapSet(store, key, [count |-> 1, resetTime |-> t + config.windowMs]),
           result |-> [success |-> TRUE, limit |-> config.maxRequests,
                       remaining |-> config.maxRequests - 1,
                       resetTime |-> t + config.windowMs] ]
    ELSE IF store[key].count > config.maxRequests
    THEN [ store  |-> store,
           result |-> [success |-> FALSE, limit |-> config.maxRequests,
                       remaining |-> 0,
                       resetTime |-> store[key].resetTime,
                       retryAfter |-> CeilDiv(store[key].resetTime - t, 1000)] ]
    ELSE [ store  |-> MapSet(store, key, [count |-> store[key].count + 1,
                                          resetTime |-> store[key].resetTime]),
           result |-> [success |-> TRUE, limit |-> config.maxRequests,
                       remaining |-> config.maxRequests - (store[key].count + 1),
                       resetTime |-> store[key].resetTime] ]

\* checkRateLimit that opens a window only for a key without a bucket (the
\* `now > existing.resetTime` test dropped)
checkRateLimit_NoExpiry(store, key, config, t) ==
    IF key \notin DOMAIN store
    THEN [ store  |-> MapSet(store, key, [count |-> 1, resetTime |-> t + config.windowMs]),
           result |-> [success |-> TRUE, limit |-> config.maxRequests,
                       remaining |-> config.maxRequests - 1,
                       resetTime |-> t + config.windowMs] ]
    ELSE IF store[key].count >= config.maxRequests
    THEN [ store  |-> store,
           result |-> [success |-> FALSE, limit |-> config.maxRequests,
                       remaining |-> 0,
                       resetTime |-> store[key].resetTime,
                       retryAfter |-> CeilDiv(store[key].resetTime - t, 1000)] ]
    ELSE [ store  |-> MapSet(store, key, [count |-> store[key].count + 1,
                                          resetTime |-> store[key].resetTime]),
           result |-> [success |-> TRUE, limit |-> config.maxRequests,
                       remaining |-> config.maxRequests - (store[key].count + 1),
                       resetTime |-> store[key].resetTime] ]

\* checkRateLimit that reports the remaining quota as it was before the
\* increment
checkRateLimit_RemainingBeforeIncrement(store, key, config, t) ==
    IF key \notin DOMAIN store \/ t > store[key].resetTime
    THEN [ store  |-> MapSet(store, key, [count |-> 1, resetTime |-> t + config.windowMs]),
           result |-> [success |-> TRUE, limit |-> config.maxRequests,
                       remaining |-> config.maxRequests - 1,
                       resetTime |-> t + config.windowMs] ]
    ELSE IF store[key].count >= config.maxRequests
    THEN [ store  |-> store,
           result |-> [success |-> FALSE, limit |-> config.maxRequests,
                       remaining |-> 0,
                       resetTime |-> store[key].resetTime,
                       retryAfter |-> CeilDiv(store[key].resetTime - t, 1000)] ]
    ELSE [ store  |-> MapSet(store, key, [count |-> store[key].count + 1,
                                          resetTime |-> store[key].resetTime]),
           result |-> [success |-> TRUE, limit |-> config.maxRequests,
                       remaining |-> config.maxRequests - store[key].count,
                       resetTime |-> store[key].resetTime] ]

\* checkRateLimit whose rejection starts the window anew
checkRateLimit_RejectExtendsWindow(store, key, config, t) ==
    IF key \notin DOMAIN store \/ t > store[key].resetTime
    THEN [ store  |-> MapSet(store, key, [count |-> 1, resetTime |-> t + config.windowMs]),
           result |-> [success |-> TRUE, limit |-> config.maxRequests,
                       remaining |-> config.maxRequests - 1,
                       resetTime |-> t + config.windowMs] ]
    ELSE IF store[key].count >= config.maxRequests
    THEN [ store  |-> MapSet(store, key, [count |-> store[key].count,
                                          resetTime |-> t + config.windowMs]),
           result |-> [success |-> FALSE, limit |-> config.maxRequests,
                       remaining |-> 0,
                       resetTime |-> store[key].resetTime,
                       retryAfter |-> CeilDiv(store[key].resetTime - t, 1000)] ]
    ELSE [ store  |-> MapSet(store, key, [count |-> store[key].count + 1,
                                          resetTime |-> store[key].resetTime]),
           result |-> [success |-> TRUE, limit |-> config.maxRequests,
                       remaining |-> config.maxRequests - (store[key].count + 1),
                       resetTime |-> store[key].resetTime] ]

\* checkRateLimit that allows a call inside a window without counting it
checkRateLimit_LostIncrement(store, key, config, t) ==
    IF key \notin DOMAIN store \/ t > store[key].resetTime
    THEN [ store  |-> MapSet(store, key, [count |-> 1, resetTime |-> t + config.windowMs]),
           result |-> [success |-> TRUE, limit |-> config.maxRequests,
                       remaining |-> config.maxRequests - 1,
                       resetTime |-> t + config.windowMs] ]
    ELSE IF store[key].count >= config.maxRequests
    THEN [ store  |-> store,
           result |-> [success |-> FALSE, limit |-> config.maxRequests,
                       remaining |-> 0,
                       resetTime |-> store[key].resetTime,
                       retryAfter |-> CeilDiv(store[key].resetTime - t, 1000)] ]
    ELSE [ store  |-> store,
           result |-> [success |-> TRUE, limit |-> config.maxRequests,
                       remaining |-> config.maxRequests - (store[key].count + 1),
                       resetTime |-> store[key].resetTime] ]

\* checkRateLimit after the optional sweep: the store it leaves and the
\* result it returns, for Date.now() = t
checkRateLimit(store, key, config, t) ==
    IF key \notin DOMAIN store \/ t > store[key].resetTime
    THEN [ store  |-> MapSet(store, key, [count |-> 1, resetTime |-> t + config.windowMs]),
           result |-> [success |-> TRUE, limit |-> config.maxRequests,
                       remaining |-> config.maxRequests - 1,
                       resetTime |-> t + config.windowMs] ]
    ELSE IF store[key].count >= config.maxRequests
    THEN [ store  |-> store,
           result |-> [success |-> FALSE, limit |-> config.maxRequests,
                       remaining |-> 0,
                       resetTime |-> store[key].resetTime,
                       retryAfter |-> CeilDiv(store[key].resetTime - t, 1000)] ]
    ELSE [ store  |-> MapSet(store, key, [count |-> store[key].count + 1,
                                          resetTime |-> store[key].resetTime]),
           result |-> [success |-> TRUE, limit |-> config.maxRequests,
                       remaining |-> config.maxRequests - (store[key].count + 1),
                       resetTime |-> store[key].resetTime] ]

\* The calls the model makes: an anonymous client behind a proxy and a signed-in
\* user, on the two window lengths of RATE_LIMITS (default and vote have
\* auth's window and differ from it in maxRequests alone).
Requests == { [forwarded |-> Header(<<"1", ",", "2">>), realIp |-> Header(<<"9">>)] }
UserIds  == {EmptyString, <<"u">>}
RlTypes  == {"createPoll", "auth"}

\* The observer of one key: a call made at t opens a new window when it has
\* seen none or t is past the reset time the last window reported.
ObsOpen(obs, key, t) == key \notin DOMAIN obs \/ t > obs[key].resetTime
ObsAfter(obs, key, t, result) ==
    IF ~result.success THEN obs
    ELSE IF ObsOpen(obs, key, t)
         THEN MapSet(obs, key, [allowed |-> 1, resetTime |-> result.resetTime])
         ELSE MapSet(obs, key, [allowed |-> obs[key].allowed + 1,
                                resetTime |-> obs[key].resetTime])

CheckRateLimit(request, type, userId, sweep) ==
    LET key    == RateKey(type, getClientId(request, userId))
        config == RATE_LIMITS[type]
        swept  == IF sweep THEN cleanupExpiredEntries(requestCounts, now) ELSE requestCounts
        out    == checkRateLimit(swept, key, config, now)
    IN  /\ Cardinality(DOMAIN out.store) <= MaxBuckets
        /\ requestCounts' = out.store
        /\ rlLast' = [op |-> "checkRateLimit", key |-> key, type |-> type,
                      had |-> key \in DOMAIN requestCounts,
                      expired |-> key \in DOMAIN requestCounts /\ now > requestCounts[key].resetTime,
                      count0 |-> IF key \in DOMAIN requestCounts THEN requestCounts[key].count ELSE 0,
                      seen |-> IF ObsOpen(rlObs, key, now) THEN 0 ELSE rlObs[key].allowed,
                      result |-> out.result]
        /\ rlObs' = ObsAfter(rlObs, key, now, out.result)
        /\ UNCHANGED <<now, ticks, csrfVars, sessVars, mwVars, hookVars, voteVars, authVars, obsVars, routeVars>>

\* Time passes to the next reset time among the live buckets that is not
\* yet more than a millisecond behind, or to one millisecond before or after it.
RlPending == {requestCounts[k].resetTime : k \in DOMAIN requestCounts} \ 0..(now - 1)
RlDeadlines ==
    IF RlPending = {} THEN {}
    ELSE LET d == CHOOSE x \in RlPending : \A y \in RlPending : x <= y
         IN  {d - 1, d, d + 1}
RlTick ==
    /\ ticks < MaxTicks
    /\ \E t \in {d \in RlDeadlines : d > now} :
          /\ now' = t
          /\ rlObs' = [k \in {x \in DOMAIN rlObs : ~(t > rlObs[x].resetTime)} |-> rlObs[k]]
    /\ ticks' = ticks + 1
    /\ rlLast' = NoCall
    /\ UNCHANGED <<requestCounts, csrfVars, sessVars, mwVars, hookVars, voteVars, authVars, obsVars, routeVars>>

Init ==
    /\ now = 1
    /\ ticks = 0
    /\ requestCounts = EmptyMap
    /\ rlLast = NoCall
    /\ rlObs = EmptyMap
    /\ csrfTokens = EmptyMap /\ csrfIssued = EmptyMap /\ csrfLast = NoCall
    /\ sessionActivities = EmptyMap /\ sessLast = NoCall /\ sessObs = EmptyMap
    /\ wrl = NoCall /\ guardLast = NoCall
    /\ hook = HookMounted
    /\ votes = {} /\ subs = EmptyMap
    /\ rateLimit = EmptyMap /\ authLast = NoCall /\ authObs = EmptyMap
    /\ rlLog = EmptyMap /\ rlShadow = EmptyMap
    /\ inFlight = [id \in 1..MaxInFlight |-> Idle]

RlNext ==
    \/ \E request \in Requests, type \in RlTypes, userId \in UserIds, sweep \in BOOLEAN :
          CheckRateLimit(request, type, userId, sweep)
    \/ RlTick

SpecRateLimit == Init /\ [][RlNext]_vars

\* getClientId on its own: every user id and header value of at most
\* MaxIdLen characters, among them the comma and the colon
IdChars == {"a", ",", ":"}
IdStrings == UNION { [1..n -> IdChars] : n \in 0..MaxIdLen }
IdHeaders == {NoHeader} \cup {Header(v) : v \in IdStrings}
IdRequests == [forwarded : IdHeaders, realIp : IdHeaders]

GetClientId(request, userId) ==
    /\ rlLast' = [op |-> "getClientId", request |-> request, userId |-> userId,
                  clientId |-> getClientId(request, userId)]
    /\ UNCHANGED <<now, ticks, requestCounts, rlObs, csrfVars, sessVars, mwVars, hookVars, voteVars, authVars, obsVars, routeVars>>

\* one call, on any of the inputs
ClientIdNext ==
    /\ rlLast = NoCall
    /\ \E request \in IdRequests, userId \in IdStrings : GetClientId(request, userId)

SpecClientId == Init /\ [][ClientIdNext]_vars

\* checkRateLimit followed over a sequence of calls, with two observers
\* beside it: rlLog keeps the times of the calls allowed for each key, and
\* rlShadow is the map the same calls leave when the sweep never runs.
CheckRateLimitTraced(request, type, userId, sweep) ==
    LET key    == RateKey(type, getClientId(request, userId))
        config == RATE_LIMITS[type]
        swept  == IF sweep THEN cleanupExpiredEntries(requestCounts, now) ELSE requestCounts
        out    == checkRateLimit(swept, key, config, now)
        plain  == checkRateLimit(rlShadow, key, config, now)
    IN  /\ requestCounts' = out.store
        /\ rlShadow' = plain.store
        /\ rlLast' = [op |-> "checkRateLimit", key |-> key, sweep |-> sweep,
                      result |-> out.result, unswept |-> plain.result]
        /\ rlLog' = IF out.result.success
                    THEN MapSet(rlLog, key,
                                Append(IF key \in DOMAIN rlLog THEN rlLog[key] ELSE << >>, now))
                    ELSE rlLog
        /\ UNCHANGED <<now, ticks, rlObs, csrfVars, sessVars, mwVars, hookVars, voteVars, authVars, routeVars>>

\* Time passes as in RlTick.  The log forgets the calls that lie more than a
\* window and a millisecond behind.
RlTraceTick ==
    /\ ticks < MaxTraceTicks
    /\ \E t \in {d \in RlDeadlines : d > now} :
          /\ now' = t
          /\ rlLog' = [k \in DOMAIN rlLog |->
                          SelectSeq(rlLog[k],
                                    LAMBDA at : at >= t - RATE_LIMITS[k[1]].windowMs - 1)]
    /\ ticks' = ticks + 1
    /\ rlLast' = NoCall
    /\ UNCHANGED <<requestCounts, rlObs, rlShadow, csrfVars, sessVars, mwVars, hookVars, voteVars, authVars, routeVars>>

\* the traced calls: both clients on one limit class
TraceTypes == {"auth"}

RlTraceNext ==
    \/ \E request \in Requests, type \in TraceTypes, userId \in UserIds, sweep \in BOOLEAN :
          CheckRateLimitTraced(request, type, userId, sweep)
    \/ RlTraceTick

SpecRateLimitTrace == Init /\ [][RlTraceNext]_vars

\* POST of src/app/api/polls/[id]/vote/route.ts, as far as the limiter goes.
\* The handler awaits supabase.auth.getSession(), then calls checkRateLimit
\* without a further await, then awaits the body and castVote.  Several
\* POSTs are in flight at once; each step below is what one of them does
\* between two awaits.
RouteUsers == {"a", "b"}

\* the handler is entered and awaits the session
VoteRoutePOST(id, user) ==
    /\ inFlight[id] = Idle
    /\ \A j \in 1..(id - 1) : inFlight[j] # Idle
    /\ inFlight' = [inFlight EXCEPT ![id] = [pc |-> "getSession", user |-> user]]
    /\ rlLast' = NoCall
    /\ UNCHANGED <<now, ticks, requestCounts, rlObs, csrfVars, sessVars, mwVars, hookVars, voteVars, authVars, obsVars>>

\* getSession() resolves: without a user the handler throws; with one it
\* calls checkRateLimit(request, 'vote', session.user.id) and returns the
\* 429 when the call is rejected
VoteRouteSession(id, found, sweep) ==
    /\ inFlight[id].pc = "getSession"
    /\ IF ~found
       THEN /\ inFlight' = [inFlight EXCEPT ![id] = Idle]
            /\ rlLast' = NoCall
            /\ UNCHANGED <<requestCounts, rlObs>>
       ELSE LET key    == RateKey("vote", getClientId([forwarded |-> NoHeader, realIp |-> NoHeader],
                                                      <<inFlight[id].user>>))
                config == RATE_LIMITS["vote"]
                swept  == IF sweep THEN cleanupExpiredEntries(requestCounts, now)
                          ELSE requestCounts
                out    == checkRateLimit(swept, key, config, now)
            IN  /\ requestCounts' = out.store
                /\ rlObs' = ObsAfter(rlObs, key, now, out.result)
                /\ rlLast' = [op |-> "checkRateLimit", key |-> key, id |-> id,
                              result |-> out.result]
                /\ inFlight' = [inFlight EXCEPT ![id] =
                                  IF out.result.success
                                  THEN [pc |-> "castVote", user |-> inFlight[id].user]
                                  ELSE Idle]
    /\ UNCHANGED <<now, ticks, csrfVars, sessVars, mwVars, hookVars, voteVars, authVars, obsVars>>

\* the body is read and castVote answers: the handler returns or throws
VoteRouteSettles(id) ==
    /\ inFlight[id].pc = "castVote"
    /\ inFlight' = [inFlight EXCEPT ![id] = Idle]
    /\ rlLast' = NoCall
    /\ UNCHANGED <<now, ticks, requestCounts, rlObs, csrfVars, sessVars, mwVars, hookVars, voteVars, authVars, obsVars>>

VoteRouteNext ==
    \/ \E id \in 1..MaxInFlight, user \in RouteUsers : VoteRoutePOST(id, user)
    \/ \E id \in 1..MaxInFlight, found \in BOOLEAN, sweep \in BOOLEAN :
          VoteRouteSession(id, found, sweep)
    \/ \E id \in 1..MaxInFlight : VoteRouteSettles(id)
    \/ RlTick

SpecVoteRoute == Init /\ [][VoteRouteNext]_vars

----------------------------------------------------------------------------
(***************************************************************************)
(* CSRF token store                                                        *)
(***************************************************************************)
\* CSRF_CONFIG.TOKEN_EXPIRY
TOKEN_EXPIRY == 24 * 60 * 60 * 1000

\* A token is a string of hex digits, here a sequence; << >> is ''.
\* generateCSRFToken draws 32 random bytes: a value no earlier call returned.
Tokens == {<<i>> : i \in 1..MaxTokens}
NoToken == << >>

\* sha256 as a one-way, collision-free map into another space of strings
hashToken(token) == <<"sha256">> \o token

storeCSRFToken(store, userId, token, t) ==
    MapSet(store, hashToken(token),
           [token |-> hashToken(token), userId |-> userId,
            createdAt |-> t, expiresAt |-> t + TOKEN_EXPIRY])

\* validateCSRFToken without the ownership test
validateCSRFToken_NoOwnerCheck(store, userId, token, t) ==
    IF token = NoToken \/ userId = "" THEN [store |-> store, result |-> FALSE]
    ELSE IF hashToken(token) \notin DOMAIN store THEN [store |-> store, result |-> FALSE]
    ELSE IF t > store[hashToken(token)].expiresAt
         THEN [store |-> MapDelete(store, hashToken(token)), result |-> FALSE]
    ELSE [store |-> store, result |-> TRUE]

\* validateCSRFToken that treats the last millisecond as expired (>= for >)
validateCSRFToken_ExpiresEarly(store, userId, token, t) ==
    IF token = NoToken \/ userId = "" THEN [store |-> store, result |-> FALSE]
    ELSE IF hashToken(token) \notin DOMAIN store THEN [store |-> store, result |-> FALSE]
    ELSE IF store[hashToken(token)].userId # userId THEN [store |-> store, result |-> FALSE]
    ELSE IF t >= store[hashToken(token)].expiresAt
         THEN [store |-> MapDelete(store, hashToken(token)), result |-> FALSE]
    ELSE [store |-> store, result |-> TRUE]

\* validateCSRFToken that evicts a record once it is presented by the wrong identity
validateCSRFToken_EvictOnMismatch(store, userId, token, t) ==
    IF token = NoToken \/ userId = "" THEN [store |-> store, result |-> FALSE]
    ELSE IF hashToken(token) \notin DOMAIN store THEN [store |-> store, result |-> FALSE]
    ELSE IF store[hashToken(token)].userId # userId
         THEN [store |-> MapDelete(store, hashToken(token)), result |-> FALSE]
    ELSE IF t > store[hashToken(token)].expiresAt
         THEN [store |-> MapDelete(store, hashToken(token)), result |-> FALSE]
    ELSE [store |-> store, result |-> TRUE]

\* validateCSRFToken: the store it leaves and the boolean it returns
validateCSRFToken(store, userId, token, t) ==
    IF token = NoToken \/ userId = "" THEN [store |-> store, result |-> FALSE]
    ELSE IF hashToken(token) \notin DOMAIN store THEN [store |-> store, result |-> FALSE]
    ELSE IF store[hashToken(token)].userId # userId THEN [store |-> store, result |-> FALSE]
    ELSE IF t > store[hashToken(token)].expiresAt
         THEN [store |-> MapDelete(store, hashToken(token)), result |-> FALSE]
    ELSE [store |-> store, result |-> TRUE]

cleanupExpiredCSRFTokens(store, t) ==
    [h \in {x \in DOMAIN store : ~(t > store[x].expiresAt)} |-> store[h]]

\* identities with a session, and what a caller may pass as userId
CsrfUsers == {"A", "B"}
CsrfCallers == CsrfUsers \cup {""}

\* generateCSRFTokenForUser for a request whose session belongs to `user`
\* ("" when getSession yields no user)
GenerateCSRFTokenForUser(user) ==
    /\ IF user = ""
       THEN /\ csrfLast' = [op |-> "generate", userId |-> user, token |-> NoToken,
                            error |-> "No authenticated user"]
            /\ UNCHANGED <<csrfTokens, csrfIssued>>
       ELSE \E token \in Tokens \ DOMAIN csrfIssued :
            /\ csrfTokens' = storeCSRFToken(csrfTokens, user, token, now)
            /\ csrfIssued' = MapSet(csrfIssued, token, [userId |-> user, at |-> now])
            /\ csrfLast' = [op |-> "generate", userId |-> user, token |-> token]
    /\ UNCHANGED <<now, ticks, rlVars, sessVars, mwVars, hookVars, voteVars, authVars, obsVars, routeVars>>

ValidateCSRFToken(userId, token) ==
    LET out == validateCSRFToken(csrfTokens, userId, token, now)
    IN  /\ csrfTokens' = out.store
        /\ csrfLast' = [op |-> "validate", userId |-> userId, token |-> token,
                        result |-> out.result,
                        stored |-> hashToken(token) \in DOMAIN csrfTokens,
                        changed |-> out.store # csrfTokens]
        /\ UNCHANGED <<now, ticks, csrfIssued, rlVars, sessVars, mwVars, hookVars, voteVars, authVars, obsVars, routeVars>>

\* the hourly setInterval(cleanupExpiredCSRFTokens)
CleanupExpiredCSRFTokens ==
    /\ csrfTokens' = cleanupExpiredCSRFTokens(csrfTokens, now)
    /\ csrfLast' = [op |-> "cleanup"]
    /\ UNCHANGED <<now, ticks, csrfIssued, rlVars, sessVars, mwVars, hookVars, voteVars, authVars, obsVars, routeVars>>

\* Time passes to the next expiry among the tokens generated that is not yet
\* more than a millisecond behind, or to one millisecond before or after it.
CsrfPending == {csrfIssued[k].at + TOKEN_EXPIRY : k \in DOMAIN csrfIssued} \ 0..(now - 1)
CsrfDeadlines ==
    IF CsrfPending = {} THEN {}
    ELSE LET d == CHOOSE x \in CsrfPending : \A y \in CsrfPending : x <= y
         IN  {d - 1, d, d + 1}
CsrfTick ==
    /\ ticks < MaxCsrfTicks
    /\ \E t \in {d \in CsrfDeadlines : d > now} : now' = t
    /\ ticks' = ticks + 1
    /\ csrfLast' = NoCall
    /\ UNCHANGED <<csrfTokens, csrfIssued, rlVars, sessVars, mwVars, hookVars, voteVars, authVars, obsVars, routeVars>>

CsrfNext ==
    \/ \E user \in CsrfCallers : GenerateCSRFTokenForUser(user)
    \/ \E userId \in CsrfCallers, token \in Tokens \cup {NoToken} :
          ValidateCSRFToken(userId, token)
    \/ CleanupExpiredCSRFTokens
    \/ CsrfTick

SpecCSRF == Init /\ [][CsrfNext]_vars

----------------------------------------------------------------------------
(***************************************************************************)
(* Session activity tracker                                                *)
(***************************************************************************)
\* SESSION_CONFIG
WARNING_DURATION     == 5 * 60 * 1000
REFRESH_THRESHOLD    == 10 * 60 * 1000
MAX_SESSION_DURATION == 8 * 60 * 60 * 1000
INACTIVITY_TIMEOUT   == 2 * 60 * 60 * 1000

\* trackUserActivity that restarts the session on every call
trackUserActivity_RestartsSession(store, userId, t) ==
    MapSet(store, userId,
           [userId |-> userId, lastActivity |-> t, sessionStart |-> t,
            warningShown |-> FALSE])

\* trackUserActivity that keeps the warningShown flag of the record it refreshes
trackUserActivity_KeepsWarning(store, userId, t) ==
    MapSet(store, userId,
           [userId |-> userId,
            lastActivity |-> t,
            sessionStart |-> IF userId \in DOMAIN store /\ store[userId].sessionStart # 0
                             THEN store[userId].sessionStart ELSE t,
            warningShown |-> userId \in DOMAIN store /\ store[userId].warningShown])

\* trackUserActivity; `existing?.sessionStart || now` takes now for 0 too
trackUserActivity(store, userId, t) ==
    MapSet(store, userId,
           [userId |-> userId,
            lastActivity |-> t,
            sessionStart |-> IF userId \in DOMAIN store /\ store[userId].sessionStart # 0
                             THEN store[userId].sessionStart ELSE t,
            warningShown |-> FALSE])

\* shouldTerminateSession that measures the session's age from the last activity
shouldTerminateSession_AgeFromActivity(store, userId, t) ==
    IF userId \notin DOMAIN store
    THEN [shouldTerminate |-> TRUE, reason |-> "not_found"]
    ELSE IF t - store[userId].lastActivity > INACTIVITY_TIMEOUT
    THEN [shouldTerminate |-> TRUE, reason |-> "inactivity"]
    ELSE IF t - store[userId].lastActivity > MAX_SESSION_DURATION
    THEN [shouldTerminate |-> TRUE, reason |-> "max_duration"]
    ELSE [shouldTerminate |-> FALSE]

\* shouldTerminateSession that ends the session at the timeout itself (>= for >)
shouldTerminateSession_AtTimeout(store, userId, t) ==
    IF userId \notin DOMAIN store
    THEN [shouldTerminate |-> TRUE, reason |-> "not_found"]
    ELSE IF t - store[userId].lastActivity >= INACTIVITY_TIMEOUT
    THEN [shouldTerminate |-> TRUE, reason |-> "inactivity"]
    ELSE IF t - store[userId].sessionStart > MAX_SESSION_DURATION
    THEN [shouldTerminate |-> TRUE, reason |-> "max_duration"]
    ELSE [shouldTerminate |-> FALSE]

shouldTerminateSession(store, userId, t) ==
    IF userId \notin DOMAIN store
    THEN [shouldTerminate |-> TRUE, reason |-> "not_found"]
    ELSE IF t - store[userId].lastActivity > INACTIVITY_TIMEOUT
    THEN [shouldTerminate |-> TRUE, reason |-> "inactivity"]
    ELSE IF t - store[userId].sessionStart > MAX_SESSION_DURATION
    THEN [shouldTerminate |-> TRUE, reason |-> "max_duration"]
    ELSE [shouldTerminate |-> FALSE]

\* shouldShowSessionWarning that does not record the warning
shouldShowSessionWarning_NoFlag(store, userId, t) ==
    IF userId \notin DOMAIN store \/ store[userId].warningShown
    THEN [store |-> store, result |-> FALSE]
    ELSE IF INACTIVITY_TIMEOUT - (t - store[userId].lastActivity) <= WARNING_DURATION
    THEN [store |-> store, result |-> TRUE]
    ELSE [store |-> store, result |-> FALSE]

\* shouldShowSessionWarning: the store it leaves and the boolean it returns
shouldShowSessionWarning(store, userId, t) ==
    IF userId \notin DOMAIN store \/ store[userId].warningShown
    THEN [store |-> store, result |-> FALSE]
    ELSE IF INACTIVITY_TIMEOUT - (t - store[userId].lastActivity) <= WARNING_DURATION
    THEN [store  |-> MapSet(store, userId, [store[userId] EXCEPT !.warningShown = TRUE]),
          result |-> TRUE]
    ELSE [store |-> store, result |-> FALSE]

cleanupExpiredSessions(store, t) ==
    [u \in {x \in DOMAIN store : ~(t - store[x].lastActivity > INACTIVITY_TIMEOUT)} |-> store[u]]

SessUsers == {"u1", "u2"}

\* The observer of the tracker: for every user with a record, the time of the
\* first and of the latest trackUserActivity since the record was created,
\* and how many warnings were returned since the latest; it forgets a user
\* whose record is deleted.
SessObsTracked(obs, userId, t) ==
    MapSet(obs, userId,
           [first |-> IF userId \in DOMAIN obs THEN obs[userId].first ELSE t,
            last |-> t, warned |-> 0])
SessObsKept(obs, store) == [u \in DOMAIN obs \cap DOMAIN store |-> obs[u]]

TrackUserActivity(userId) ==
    /\ sessionActivities' = trackUserActivity(sessionActivities, userId, now)
    /\ sessObs' = SessObsTracked(sessObs, userId, now)
    /\ sessLast' = [op |-> "track", userId |-> userId,
                    had |-> userId \in DOMAIN sessionActivities,
                    warned0 |-> IF userId \in DOMAIN sessObs
                                THEN sessObs[userId].warned ELSE 0]
    /\ UNCHANGED <<now, ticks, rlVars, csrfVars, mwVars, hookVars, voteVars, authVars, obsVars, routeVars>>

ShouldTerminateSession(userId) ==
    /\ sessLast' = [op |-> "terminate", userId |-> userId,
                    result |-> shouldTerminateSession(sessionActivities, userId, now)]
    /\ UNCHANGED <<now, ticks, sessionActivities, sessObs, rlVars, csrfVars, mwVars, hookVars, voteVars, authVars, obsVars, routeVars>>

ShouldShowSessionWarning(userId) ==
    LET out == shouldShowSessionWarning(sessionActivities, userId, now)
    IN  /\ sessionActivities' = out.store
        /\ sessObs' = IF out.result /\ userId \in DOMAIN sessObs
                      THEN MapSet(sessObs, userId,
                                  [sessObs[userId] EXCEPT !.warned = @ + 1])
                      ELSE sessObs
        /\ sessLast' = [op |-> "warn", userId |-> userId, result |-> out.result,
                        warned0 |-> IF userId \in DOMAIN sessObs
                                    THEN sessObs[userId].warned ELSE 0]
        /\ UNCHANGED <<now, ticks, rlVars, csrfVars, mwVars, hookVars, voteVars, authVars, obsVars, routeVars>>

\* What supabase.auth.getSession() can do for a request made now: throw,
\* report an error, find no session, or yield a session of a user whose
\* expires_at (seconds; 0 when the field is missing) lies about
\* REFRESH_THRESHOLD ahead.
SessionLookups ==
    { [kind |-> "throw"], [kind |-> "error"], [kind |-> "none"] } \cup
    { [kind |-> "session", userId |-> u, expires_at |-> e] :
        u \in SessUsers,
        e \in {0, (now + REFRESH_THRESHOLD) \div 1000, (now + REFRESH_THRESHOLD) \div 1000 + 1} }

\* validateAndRefreshSession that compares expires_at, which is in seconds,
\* with Date.now() without converting it to milliseconds
validateAndRefreshSession_ExpiryInSeconds(store, lookup, signOutThrows, t) ==
    IF lookup.kind = "throw"
    THEN [store |-> store,
          result |-> [isValid |-> FALSE, shouldRefresh |-> FALSE, error |-> "thrown"]]
    ELSE IF lookup.kind # "session"
    THEN [store |-> store,
          result |-> [isValid |-> FALSE, shouldRefresh |-> FALSE, error |-> "No session found"]]
    ELSE IF shouldTerminateSession(store, lookup.userId, t).shouldTerminate
    THEN [store |-> MapDelete(store, lookup.userId),
          result |-> [isValid |-> FALSE, shouldRefresh |-> FALSE,
                      error |-> IF signOutThrows THEN "thrown"
                                ELSE shouldTerminateSession(store, lookup.userId, t).reason]]
    ELSE [store |-> trackUserActivity(store, lookup.userId, t),
          result |-> [isValid |-> TRUE,
                      shouldRefresh |-> lookup.expires_at - t < REFRESH_THRESHOLD]]

\* validateAndRefreshSession: the store it leaves and the value it returns;
\* signOutThrows tells whether supabase.auth.signOut() rejects
validateAndRefreshSession(store, lookup, signOutThrows, t) ==
    IF lookup.kind = "throw"
    THEN [store |-> store,
          result |-> [isValid |-> FALSE, shouldRefresh |-> FALSE, error |-> "thrown"]]
    ELSE IF lookup.kind # "session"
    THEN [store |-> store,
          result |-> [isValid |-> FALSE, shouldRefresh |-> FALSE, error |-> "No session found"]]
    ELSE IF shouldTerminateSession(store, lookup.userId, t).shouldTerminate
    THEN [store |-> MapDelete(store, lookup.userId),
          result |-> [isValid |-> FALSE, shouldRefresh |-> FALSE,
                      error |-> IF signOutThrows THEN "thrown"
                                ELSE shouldTerminateSession(store, lookup.userId, t).reason]]
    ELSE [store |-> trackUserActivity(store, lookup.userId, t),
          result |-> [isValid |-> TRUE,
                      shouldRefresh |-> lookup.expires_at * 1000 - t < REFRESH_THRESHOLD]]

ValidateAndRefreshSession(lookup, signOutThrows) ==
    LET out == validateAndRefreshSession(sessionActivities, lookup, signOutThrows, now)
    IN  /\ sessionActivities' = out.store
        /\ sessObs' = IF out.result.isValid
                      THEN SessObsTracked(sessObs, lookup.userId, now)
                      ELSE SessObsKept(sessObs, out.store)
        /\ sessLast' = [op |-> "validate", lookup |-> lookup, result |-> out.result]
        /\ UNCHANGED <<now, ticks, rlVars, csrfVars, mwVars, hookVars, voteVars, authVars, obsVars, routeVars>>

\* the setInterval(cleanupExpiredSessions) of part_001 and the sweep of middleware.ts
CleanupExpiredSessions ==
    /\ sessionActivities' = cleanupExpiredSessions(sessionActivities, now)
    /\ sessObs' = SessObsKept(sessObs, sessionActivities')
    /\ sessLast' = [op |-> "cleanup"]
    /\ UNCHANGED <<now, ticks, rlVars, csrfVars, mwVars, hookVars, voteVars, authVars, obsVars, routeVars>>

\* Time passes to an instant at which a record's answers change: the start
\* of its warning period, its inactivity timeout or its maximum duration, or
\* a millisecond before the first or after the other two.
SessDeadlines ==
    UNION { { sessionActivities[u].lastActivity + INACTIVITY_TIMEOUT - WARNING_DURATION - 1,
              sessionActivities[u].lastActivity + INACTIVITY_TIMEOUT - WARNING_DURATION,
              sessionActivities[u].lastActivity + INACTIVITY_TIMEOUT,
              sessionActivities[u].lastActivity + INACTIVITY_TIMEOUT + 1,
              sessionActivities[u].sessionStart + MAX_SESSION_DURATION,
              sessionActivities[u].sessionStart + MAX_SESSION_DURATION + 1 }
            : u \in DOMAIN sessionActivities }
SessTick ==
    /\ ticks < MaxSessTicks
    /\ \E t \in {d \in SessDeadlines : d > now} : now' = t
    /\ ticks' = ticks + 1
    /\ sessLast' = NoCall
    /\ UNCHANGED <<sessionActivities, sessObs, rlVars, csrfVars, mwVars, hookVars, voteVars, authVars, obsVars, routeVars>>

SessNext ==
    \/ \E userId \in SessUsers : TrackUserActivity(userId)
    \/ \E userId \in SessUsers : ShouldTerminateSession(userId)
    \/ \E userId \in SessUsers : ShouldShowSessionWarning(userId)
    \/ \E lookup \in SessionLookups, signOutThrows \in BOOLEAN :
          ValidateAndRefreshSession(lookup, signOutThrows)
    \/ CleanupExpiredSessions
    \/ SessTick

SpecSession == Init /\ [][SessNext]_vars

----------------------------------------------------------------------------
(***************************************************************************)
(* withRateLimit: the wrapper of rate-limit.ts around a route handler      *)
(***************************************************************************)
\* Number.prototype.toString: a string that names the number and no other
toString(n) == <<"str", n>>

\* { ...a, ...b } and a run of headers.set(k, v): b's entries over a's
Merge(a, b) == [h \in DOMAIN a \cup DOMAIN b |-> IF h \in DOMAIN b THEN b[h] ELSE a[h]]

\* result.retryAfter is truthy: present and not 0
HasRetryAfter(result) == "retryAfter" \in DOMAIN result /\ result.retryAfter # 0

createRateLimitHeaders(result) ==
    LET headers == [h \in {"X-RateLimit-Limit", "X-RateLimit-Remaining", "X-RateLimit-Reset"} |->
                      CASE h = "X-RateLimit-Limit"     -> toString(result.limit)
                        [] h = "X-RateLimit-Remaining" -> toString(result.remaining)
                        [] h = "X-RateLimit-Reset"     -> toString(CeilDiv(result.resetTime, 1000))]
    IN  IF HasRetryAfter(result)
        THEN MapSet(headers, "Retry-After", toString(result.retryAfter))
        ELSE headers

ContentTypeJson == [h \in {"Content-Type"} |-> <<"application/json">>]

\* new Response(..., { status: 429, headers: { 'Content-Type': ..., ...headers } })
TooManyRequests(result) ==
    [kind |-> "response", status |-> 429,
     headers |-> Merge(ContentTypeJson, createRateLimitHeaders(result))]

\* What awaiting the wrapped handler can yield: a response of its own or an exception
HandlerOutcomes ==
    { [kind |-> "response", status |-> 200, headers |-> ContentTypeJson],
      [kind |-> "response", status |-> 500, headers |-> ContentTypeJson],
      [kind |-> "throw"] }

\* The call as the wrapper is entered
WrlEntered(key) ==
    [op |-> "try", key |-> key, threw |-> FALSE, result |-> NoCall,
     handlerCalls |-> 0, handlerOut |-> NoCall, response |-> NoCall]

\* a catch block that answers 429 instead of calling the handler
withRateLimit_catch_Rejects(call) ==
    [call EXCEPT !.op = "done",
                 !.response = [kind |-> "response", status |-> 429, headers |-> ContentTypeJson]]

\* catch (error) { return handler(request, ...args) }: the handler is called (again)
withRateLimit_catch(call) ==
    [call EXCEPT !.op = "catch", !.handlerCalls = @ + 1]

\* The wrapper up to its first await.  `throws` is a fault inside
\* checkRateLimit; every statement of it that can throw (the header reads,
\* RATE_LIMITS[type].windowMs) precedes its only write to requestCounts.
WithRateLimit(request, type, sweep, throws) ==
    LET key    == RateKey(type, getClientId(request, EmptyString))
        swept  == IF sweep THEN cleanupExpiredEntries(requestCounts, now) ELSE requestCounts
        out    == checkRateLimit(swept, key, RATE_LIMITS[type], now)
        call   == WrlEntered(key)
    IN  /\ wrl.op = "none"
        /\ IF throws
           THEN /\ wrl' = withRateLimit_catch([call EXCEPT !.threw = TRUE])
                /\ UNCHANGED requestCounts
           ELSE /\ Cardinality(DOMAIN out.store) <= MaxBuckets
                /\ requestCounts' = out.store
                /\ wrl' = IF ~out.result.success
                          THEN [call EXCEPT !.op = "done", !.result = out.result,
                                            !.response = TooManyRequests(out.result)]
                          ELSE [call EXCEPT !.op = "handler", !.result = out.result,
                                            !.handlerCalls = 1]
        /\ UNCHANGED <<now, ticks, rlLast, rlObs, guardLast, csrfVars, sessVars, hookVars, voteVars, authVars, obsVars, routeVars>>

\* The awaited handler settles: in the try block its response gets the
\* rate-limit headers and an exception enters the catch block; in the catch
\* block whatever it yields is the wrapper's result.
WrlHandlerSettles(outcome) ==
    /\ wrl.op \in {"handler", "catch"}
    /\ wrl' = IF wrl.op = "catch"
              THEN [wrl EXCEPT !.op = "done", !.handlerOut = outcome, !.response = outcome]
              ELSE IF outcome.kind = "throw"
              THEN withRateLimit_catch([wrl EXCEPT !.handlerOut = outcome])
              ELSE [wrl EXCEPT !.op = "done", !.handlerOut = outcome,
                               !.response = [outcome EXCEPT !.headers =
                                   Merge(@, createRateLimitHeaders(wrl.result))]]
    /\ UNCHANGED <<now, ticks, rlVars, guardLast, csrfVars, sessVars, hookVars, voteVars, authVars, obsVars, routeVars>>

\* The caller has the wrapper's result; the next request may come
WrlReturn ==
    /\ wrl.op = "done"
    /\ wrl' = NoCall
    /\ UNCHANGED <<now, ticks, rlVars, guardLast, csrfVars, sessVars, hookVars, voteVars, authVars, obsVars, routeVars>>

WrlNext ==
    \/ \E request \in Requests, type \in RlTypes, sweep \in BOOLEAN, throws \in BOOLEAN :
          WithRateLimit(request, type, sweep, throws)
    \/ \E outcome \in HandlerOutcomes : WrlHandlerSettles(outcome)
    \/ WrlReturn
    \/ RlTick

SpecWithRateLimit == Init /\ [][WrlNext]_vars

----------------------------------------------------------------------------
(***************************************************************************)
(* withCSRFProtection (part_003) and withSessionValidation (part_001)      *)
(***************************************************************************)
Methods == {"GET", "HEAD", "OPTIONS", "POST", "PUT", "PATCH", "DELETE"}

\* the defaults of withCSRFProtection's options, and a route configured otherwise
DefaultOptions == [methods |-> {"POST", "PUT", "DELETE", "PATCH"}, skipForGET |-> TRUE]
CsrfOptions == {DefaultOptions, [methods |-> {"GET", "POST"}, skipForGET |-> FALSE]}

\* A request as the CSRF guard reads it: its method, the x-csrf-token header
\* and the csrf-token cookie (NoToken when absent or empty)
CsrfRequests == [method : Methods, header : Tokens \cup {NoToken}, cookie : Tokens \cup {NoToken}]

\* What supabase.auth.getSession() yields to the CSRF guard: an exception,
\* no session, or a session; readThrows is an exception raised afterwards,
\* while the request's header and cookie are read
CsrfLookups ==
    { [kind |-> "throw"], [kind |-> "none"] } \cup
    { [kind |-> "session", userId |-> u, readThrows |-> b] : u \in CsrfUsers, b \in BOOLEAN }

\* validateCSRFTokenFromRequest whose catch block lets the request through
validateCSRFTokenFromRequest_CatchAccepts(store, request, lookup, t) ==
    LET token == IF request.header # NoToken THEN request.header ELSE request.cookie
        out   == validateCSRFToken(store, lookup.userId, token, t)
    IN  IF lookup.kind = "throw"
        THEN [store |-> store, result |-> [isValid |-> TRUE]]
        ELSE IF lookup.kind # "session"
        THEN [store |-> store, result |-> [isValid |-> FALSE, error |-> "No authenticated user"]]
        ELSE IF lookup.readThrows
        THEN [store |-> store, result |-> [isValid |-> TRUE]]
        ELSE IF token = NoToken
        THEN [store |-> store, result |-> [isValid |-> FALSE, error |-> "CSRF token not provided"]]
        ELSE IF ~out.result
        THEN [store |-> out.store,
              result |-> [isValid |-> FALSE, error |-> "Invalid or expired CSRF token"]]
        ELSE [store |-> out.store, result |-> [isValid |-> TRUE]]

\* validateCSRFTokenFromRequest that reads the cookie before the header
validateCSRFTokenFromRequest_CookieFirst(store, request, lookup, t) ==
    LET token == IF request.cookie # NoToken THEN request.cookie ELSE request.header
        out   == validateCSRFToken(store, lookup.userId, token, t)
    IN  IF lookup.kind = "throw"
        THEN [store |-> store, result |-> [isValid |-> FALSE, error |-> "thrown"]]
        ELSE IF lookup.kind # "session"
        THEN [store |-> store, result |-> [isValid |-> FALSE, error |-> "No authenticated user"]]
        ELSE IF lookup.readThrows
        THEN [store |-> store, result |-> [isValid |-> FALSE, error |-> "thrown"]]
        ELSE IF token = NoToken
        THEN [store |-> store, result |-> [isValid |-> FALSE, error |-> "CSRF token not provided"]]
        ELSE IF ~out.result
        THEN [store |-> out.store,
              result |-> [isValid |-> FALSE, error |-> "Invalid or expired CSRF token"]]
        ELSE [store |-> out.store, result |-> [isValid |-> TRUE]]

\* validateCSRFTokenFromRequest: the store it leaves and the value it
\* returns; the error.message of an exception is "thrown"
validateCSRFTokenFromRequest(store, request, lookup, t) ==
    LET token == IF request.header # NoToken THEN request.header ELSE request.cookie
        out   == validateCSRFToken(store, lookup.userId, token, t)
    IN  IF lookup.kind = "throw"
        THEN [store |-> store, result |-> [isValid |-> FALSE, error |-> "thrown"]]
        ELSE IF lookup.kind # "session"
        THEN [store |-> store, result |-> [isValid |-> FALSE, error |-> "No authenticated user"]]
        ELSE IF lookup.readThrows
        THEN [store |-> store, result |-> [isValid |-> FALSE, error |-> "thrown"]]
        ELSE IF token = NoToken
        THEN [store |-> store, result |-> [isValid |-> FALSE, error |-> "CSRF token not provided"]]
        ELSE IF ~out.result
        THEN [store |-> out.store,
              result |-> [isValid |-> FALSE, error |-> "Invalid or expired CSRF token"]]
        ELSE [store |-> out.store, result |-> [isValid |-> TRUE]]

\* NextResponse.json({ error, message, code }, { status })
JsonError(status, error, message, code) ==
    [kind |-> "response", status |-> status, headers |-> ContentTypeJson,
     body |-> [error |-> error, message |-> message, code |-> code]]

\* A guard's call as it is entered: whether it runs with the default
\* options, the request's method, header and cookie (kept until they have
\* been read), whether validation ran, what it returned and whether an
\* exception was raised in it, how often the
\* handler was invoked, the headers the guard sets on the handler's response,
\* and the guard's result
GuardEntered(op, default, request) ==
    [op |-> op, pc |-> "entered", default |-> default, method |-> request.method,
     header |-> request.header, cookie |-> request.cookie,
     validated |-> FALSE, validation |-> NoCall, fault |-> FALSE,
     handlerCalls |-> 0, setHeaders |-> EmptyMap, response |-> NoCall]

\* no guarded call is awaiting anything
GuardIdle == IF guardLast.op = "none" THEN TRUE ELSE guardLast.pc = "done"

\* withCSRFProtection whose default list of methods lacks PATCH
withCSRFProtection_PatchUnprotected(options, request) ==
    LET call == GuardEntered("withCSRFProtection", options = DefaultOptions, request)
    IN  IF \/ options.skipForGET /\ request.method = "GET"
           \/ request.method \notin (options.methods \ {"PATCH"})
        THEN [call EXCEPT !.pc = "handler", !.handlerCalls = 1,
                          !.header = NoToken, !.cookie = NoToken]
        ELSE [call EXCEPT !.pc = "validating"]

\* withCSRFProtection(handler, options)(request) up to its first await: of
\* the handler for a method it does not protect, of
\* validateCSRFTokenFromRequest for the others
withCSRFProtection(options, request) ==
    LET call == GuardEntered("withCSRFProtection", options = DefaultOptions, request)
    IN  IF (options.skipForGET /\ request.method = "GET") \/ request.method \notin options.methods
        THEN [call EXCEPT !.pc = "handler", !.handlerCalls = 1,
                          !.header = NoToken, !.cookie = NoToken]
        ELSE [call EXCEPT !.pc = "validating"]

\* withCSRFProtection from the validation's result to its 403 or to the
\* await of the handler
withCSRFProtection_validated(call, validation) ==
    IF ~validation.isValid
    THEN [call EXCEPT !.pc = "done", !.validated = TRUE, !.validation = validation,
                      !.header = NoToken, !.cookie = NoToken,
                      !.response = JsonError(403, "CSRF validation failed",
                                             validation.error, "CSRF_INVALID")]
    ELSE [call EXCEPT !.pc = "handler", !.validated = TRUE, !.validation = validation,
                      !.header = NoToken, !.cookie = NoToken, !.handlerCalls = 1,
                      !.setHeaders = [h \in {"X-CSRF-Protected"} |-> <<"true">>]]

WithCSRFProtection(options, request) ==
    /\ GuardIdle
    /\ guardLast' = withCSRFProtection(options, request)
    /\ UNCHANGED <<now, ticks, wrl, rlVars, csrfVars, sessVars, hookVars, voteVars, authVars, obsVars, routeVars>>

\* an exception is raised inside validateCSRFTokenFromRequest
CsrfFault(lookup) ==
    IF lookup.kind = "session" THEN lookup.readThrows ELSE lookup.kind = "throw"

\* getSession() settles and validateCSRFTokenFromRequest runs to its end
GuardCsrfValidates(lookup) ==
    LET val == validateCSRFTokenFromRequest(csrfTokens, guardLast, lookup, now)
    IN  /\ guardLast.op = "withCSRFProtection" /\ guardLast.pc = "validating"
        /\ csrfTokens' = val.store
        /\ guardLast' = [withCSRFProtection_validated(guardLast, val.result)
                            EXCEPT !.fault = CsrfFault(lookup)]
        /\ UNCHANGED <<now, ticks, csrfIssued, csrfLast, wrl, rlVars, sessVars, hookVars, voteVars, authVars, obsVars, routeVars>>

\* withSessionValidation(handler)(request) up to the point where it returns
\* its 401 or awaits the handler
withSessionValidation(store, lookup, signOutThrows, t) ==
    LET val  == validateAndRefreshSession(store, lookup, signOutThrows, t)
        call == [GuardEntered("withSessionValidation", TRUE,
                              [method |-> "POST", header |-> NoToken, cookie |-> NoToken])
                    EXCEPT !.validated = TRUE, !.validation = val.result]
    IN  IF ~val.result.isValid
        THEN [store |-> val.store,
              call  |-> [call EXCEPT !.pc = "done",
                             !.response = JsonError(401, "Session invalid",
                                                    val.result.error, "SESSION_INVALID")]]
        ELSE [store |-> val.store,
              call  |-> [call EXCEPT !.pc = "handler", !.handlerCalls = 1,
                             !.setHeaders =
                                 IF val.result.shouldRefresh
                                 THEN [h \in {"X-Session-Valid", "X-Should-Refresh-Session"} |-> <<"true">>]
                                 ELSE [h \in {"X-Session-Valid"} |-> <<"true">>]]]

\* an exception is raised inside validateAndRefreshSession: by getSession(),
\* or by signOut() when the session is terminated
SessFault(store, lookup, signOutThrows, t) ==
    IF lookup.kind = "session"
    THEN signOutThrows /\ shouldTerminateSession(store, lookup.userId, t).shouldTerminate
    ELSE lookup.kind = "throw"

WithSessionValidation(lookup, signOutThrows) ==
    LET out == withSessionValidation(sessionActivities, lookup, signOutThrows, now)
    IN  /\ GuardIdle
        /\ sessionActivities' = out.store
        /\ sessObs' = IF out.call.validation.isValid
                      THEN SessObsTracked(sessObs, lookup.userId, now)
                      ELSE SessObsKept(sessObs, out.store)
        /\ guardLast' = [out.call EXCEPT
                            !.fault = SessFault(sessionActivities, lookup, signOutThrows, now)]
        /\ UNCHANGED <<now, ticks, sessLast, wrl, rlVars, csrfVars, hookVars, voteVars, authVars, obsVars, routeVars>>

\* The handler a guard awaits settles: its response gets the guard's
\* headers, its exception goes up to the guard's caller
GuardHandlerSettles(outcome) ==
    /\ guardLast.op # "none" /\ guardLast.pc = "handler"
    /\ guardLast' = [guardLast EXCEPT !.pc = "done",
                        !.response = IF outcome.kind = "throw" THEN outcome
                                     ELSE [outcome EXCEPT !.headers = Merge(@, guardLast.setHeaders)]]
    /\ UNCHANGED <<now, ticks, wrl, rlVars, csrfVars, sessVars, hookVars, voteVars, authVars, obsVars, routeVars>>

\* a token is issued to a signed-in user, MaxGuardTokens of them at most
GuardGenerate(user) ==
    /\ Cardinality(DOMAIN csrfIssued) < MaxGuardTokens
    /\ GenerateCSRFTokenForUser(user)

CsrfGuardNext ==
    \/ \E user \in CsrfUsers : GuardGenerate(user)
    \/ \E options \in CsrfOptions, request \in CsrfRequests :
          WithCSRFProtection(options, request)
    \/ \E lookup \in CsrfLookups : GuardCsrfValidates(lookup)
    \/ \E outcome \in HandlerOutcomes : GuardHandlerSettles(outcome)
    \/ CsrfTick

SpecCSRFGuard == Init /\ [][CsrfGuardNext]_vars

\* Both guards over their stores, at one instant
GuardNext ==
    \/ \E user \in CsrfUsers : GuardGenerate(user)
    \/ \E options \in CsrfOptions, request \in CsrfRequests :
          WithCSRFProtection(options, request)
    \/ \E lookup \in CsrfLookups : GuardCsrfValidates(lookup)
    \/ \E userId \in SessUsers : TrackUserActivity(userId)
    \/ \E lookup \in SessionLookups, signOutThrows \in BOOLEAN :
          WithSessionValidation(lookup, signOutThrows)
    \/ \E outcome \in HandlerOutcomes : GuardHandlerSettles(outcome)

SpecGuards == Init /\ [][GuardNext]_vars

\* validateCSRFTokenFromRequest on its own, over requests whose X-CSRF-Token
\* header and csrf-token cookie are each absent, empty or a token.
\* request.headers.get yields null for an absent header and
\* request.cookies.get(...)?.value undefined for an absent cookie: both are
\* falsy, like ''.
TokenFields == {NoHeader} \cup {Header(v) : v \in Tokens \cup {EmptyString}}
TokenRequests == [header : TokenFields, cookie : TokenFields]
FieldValue(field) == IF field.present THEN field.value ELSE NoToken
\* getSession() yields no session, or the session of a user
TokenLookups ==
    {lookup \in CsrfLookups : lookup.kind # "throw" /\ (lookup.kind = "session" => ~lookup.readThrows)}

ValidateCSRFTokenFromRequest(request, lookup) ==
    LET out == validateCSRFTokenFromRequest(
                   csrfTokens,
                   [header |-> FieldValue(request.header), cookie |-> FieldValue(request.cookie)],
                   lookup, now)
    IN  /\ csrfTokens' = out.store
        /\ csrfLast' = [op |-> "fromRequest", request |-> request, lookup |-> lookup,
                        result |-> out.result, changed |-> out.store # csrfTokens]
        /\ UNCHANGED <<now, ticks, csrfIssued, rlVars, sessVars, mwVars, hookVars, voteVars, authVars, obsVars, routeVars>>

CsrfRequestNext ==
    \/ \E user \in CsrfUsers : GuardGenerate(user)
    \/ \E request \in TokenRequests, lookup \in TokenLookups :
          ValidateCSRFTokenFromRequest(request, lookup)
    \/ CsrfTick

SpecCsrfRequest == Init /\ [][CsrfRequestNext]_vars

----------------------------------------------------------------------------
(***************************************************************************)
(* useCSRF (src/hooks/useCSRF.ts): the hook's token and protectedFetch     *)
(***************************************************************************)
\* What the server answers to fetch(url): a 403 with code CSRF_INVALID, with
\* another code or with a body that is not JSON (code ""), other statuses,
\* or no answer at all (fetch rejects)
HookResponses ==
    { [kind |-> "response", status |-> 200, code |-> ""],
      [kind |-> "response", status |-> 403, code |-> "CSRF_INVALID"],
      [kind |-> "response", status |-> 403, code |-> "FORBIDDEN"],
      [kind |-> "response", status |-> 403, code |-> ""],
      [kind |-> "response", status |-> 401, code |-> "SESSION_INVALID"],
      [kind |-> "throw"] }

\* What GET /api/csrf-token yields: a token, or a failure
TokenFetchOutcomes == {[ok |-> TRUE, token |-> t] : t \in Tokens} \cup {[ok |-> FALSE]}

\* fetchCSRFToken: the csrfToken state it sets.  Without a user it sets null
\* and makes no request; a failed request sets null as well.
fetchCSRFToken(h, outcome) ==
    IF h.user /\ outcome.ok THEN outcome.token ELSE NoToken

\* getCSRFToken has to await fetchCSRFToken: a user, and no token in the
\* csrfToken that the callback closed over
NeedsTokenFetch(h) == h.user /\ h.closure = NoToken

\* getProtectedHeaders, then fetch(url, ...): the request goes out with the
\* token getCSRFToken returns, which is the csrfToken the callback closed over
SendRequest(h) ==
    [h EXCEPT !.sent = Append(@, IF h.user THEN h.closure ELSE NoToken)]

\* protectedFetch that handles the answer to its retry like the first answer
protectedFetch_onResponse_RetriesAgain(h, resp) ==
    LET got == [h EXCEPT !.last = resp, !.first = IF Len(h.sent) = 1 THEN resp ELSE @]
    IN  IF resp.kind = "throw" THEN [got EXCEPT !.op = "done", !.result = resp]
        ELSE IF resp.status = 403 /\ resp.code = "CSRF_INVALID"
        THEN [got EXCEPT !.op = "refetch"]
        ELSE [got EXCEPT !.op = "done", !.result = resp]

\* protectedFetch from the answer to one of its sends on (useCSRF.ts:97-112):
\* the answer to the retry is the result; the first answer is the result
\* unless it is a 403 with code CSRF_INVALID, which starts fetchCSRFToken
protectedFetch_onResponse(h, resp) ==
    LET got == [h EXCEPT !.last = resp, !.first = IF Len(h.sent) = 1 THEN resp ELSE @]
    IN  IF Len(h.sent) >= 2 \/ resp.kind = "throw"
        THEN [got EXCEPT !.op = "done", !.result = resp]
        ELSE IF resp.status = 403 /\ resp.code = "CSRF_INVALID"
        THEN [got EXCEPT !.op = "refetch"]
        ELSE [got EXCEPT !.op = "done", !.result = resp]

\* useAuth() reports a change of user; the effect clears the token of a
\* user who signed out
HookAuthChanges(user) ==
    /\ hook.op \in {"none", "done"}
    /\ hook.user # user
    /\ hook' = [hook EXCEPT !.user = user, !.csrfToken = IF user THEN @ ELSE NoToken]
    /\ UNCHANGED <<now, ticks, rlVars, csrfVars, sessVars, mwVars, voteVars, authVars, obsVars, routeVars>>

\* the effect's fetchCSRFToken for a user without a token
HookEffect(outcome) ==
    /\ hook.op \in {"none", "done"}
    /\ hook.user /\ hook.csrfToken = NoToken
    /\ hook' = [hook EXCEPT !.csrfToken = fetchCSRFToken(hook, outcome)]
    /\ UNCHANGED <<now, ticks, rlVars, csrfVars, sessVars, mwVars, voteVars, authVars, obsVars, routeVars>>

\* protectedFetch(url, options) is called, on the callbacks of the latest render
ProtectedFetch ==
    LET call == [hook EXCEPT !.closure = hook.csrfToken, !.sent = << >>,
                             !.refetched = FALSE, !.first = NoCall, !.last = NoCall,
                             !.result = NoCall]
    IN  /\ hook.op \in {"none", "done"}
        /\ hook' = IF NeedsTokenFetch(call)
                   THEN [call EXCEPT !.op = "tokenFetch1"]
                   ELSE [SendRequest(call) EXCEPT !.op = "send"]
        /\ UNCHANGED <<now, ticks, rlVars, csrfVars, sessVars, mwVars, voteVars, authVars, obsVars, routeVars>>

\* an awaited fetchCSRFToken settles: the one inside getCSRFToken before a
\* send, or the one that protectedFetch starts after a CSRF_INVALID answer
HookTokenFetched(outcome) ==
    LET set == [hook EXCEPT !.csrfToken = fetchCSRFToken(hook, outcome)]
    IN  /\ hook.op \in {"tokenFetch1", "refetch", "tokenFetch2"}
        /\ hook' = IF hook.op = "refetch" /\ NeedsTokenFetch(hook)
                   THEN [set EXCEPT !.op = "tokenFetch2", !.refetched = TRUE]
                   ELSE [SendRequest(set) EXCEPT !.op = "send",
                            !.refetched = IF hook.op = "refetch" THEN TRUE ELSE @]
        /\ UNCHANGED <<now, ticks, rlVars, csrfVars, sessVars, mwVars, voteVars, authVars, obsVars, routeVars>>

\* the server's answer to a send arrives
HookResponse(resp) ==
    /\ hook.op = "send"
    /\ hook' = protectedFetch_onResponse(hook, resp)
    /\ UNCHANGED <<now, ticks, rlVars, csrfVars, sessVars, mwVars, voteVars, authVars, obsVars, routeVars>>

HookNext ==
    \/ \E user \in BOOLEAN : HookAuthChanges(user)
    \/ \E outcome \in TokenFetchOutcomes : HookEffect(outcome)
    \/ ProtectedFetch
    \/ \E outcome \in TokenFetchOutcomes : HookTokenFetched(outcome)
    \/ \E resp \in HookResponses : HookResponse(resp)

SpecUseCSRF == Init /\ [][HookNext]_vars

----------------------------------------------------------------------------
(***************************************************************************)
(* Votes: submitVote and castVote (src/lib/supabase/database.ts) over the  *)
(* votes table (fresh-database-setup.sql, part_014, the migration)         *)
(***************************************************************************)
Voters == {"u1", "u2"}
\* polls.allow_multiple_votes of the two polls
AllowMultipleVotes == [p1 |-> FALSE, p2 |-> TRUE]
Polls == DOMAIN AllowMultipleVotes
PollOptions == {"o1", "o2"}

\* the rows of `table` that a row for (poll, user) would duplicate
VotesOf(table, poll, user) == {r \in table : r.poll_id = poll /\ r.user_id = user}

\* INSERT INTO votes on a table without the UNIQUE (poll_id, user_id)
\* constraint: the check_multiple_votes trigger alone
insertVote_NoUniqueConstraint(table, row) ==
    IF ~AllowMultipleVotes[row.poll_id] /\ VotesOf(table, row.poll_id, row.user_id) # {}
    THEN [table |-> table, error |-> "Multiple votes are not allowed for this poll"]
    ELSE [table |-> table \cup {row}, error |-> ""]

\* INSERT INTO votes: the BEFORE INSERT trigger check_multiple_votes, then
\* the UNIQUE (poll_id, user_id) constraint; error "" is no error
insertVote(table, row) ==
    IF ~AllowMultipleVotes[row.poll_id] /\ VotesOf(table, row.poll_id, row.user_id) # {}
    THEN [table |-> table, error |-> "Multiple votes are not allowed for this poll"]
    ELSE IF VotesOf(table, row.poll_id, row.user_id) # {}
    THEN [table |-> table, error |-> "duplicate key value violates unique constraint"]
    ELSE [table |-> table \cup {row}, error |-> ""]

\* what a submission returns: submitVote's boolean, castVote's { success, error }
VoteDone(sub, error) ==
    [sub EXCEPT !.pc = "done", !.success = (error = ""), !.error = error]

\* submitVote(pollId, optionId) or castVote(pollId, optionId) is called by a
\* client signed in as `user`
CallVote(fn, user, poll, option) ==
    LET id == Cardinality(DOMAIN subs) + 1
    IN  /\ id <= MaxSubmissions
        /\ subs' = MapSet(subs, id, [fn |-> fn, pc |-> "getUser", user |-> user,
                                     poll |-> poll, option |-> option,
                                     success |-> FALSE, error |-> ""])
        /\ UNCHANGED <<now, ticks, votes, rlVars, csrfVars, sessVars, mwVars, hookVars, authVars, obsVars, routeVars>>

\* supabase.auth.getUser() settles: with the user, or with an error or no user
VoteGetUser(id, ok) ==
    /\ id \in DOMAIN subs /\ subs[id].pc = "getUser"
    /\ subs' = [subs EXCEPT ![id] =
                   IF ~ok THEN VoteDone(@, "User not authenticated")
                   ELSE [@ EXCEPT !.pc = IF subs[id].fn = "submitVote" THEN "check"
                                         ELSE "insert"]]
    /\ UNCHANGED <<now, ticks, votes, rlVars, csrfVars, sessVars, mwVars, hookVars, authVars, obsVars, routeVars>>

\* submitVote's hasUserVoted(pollId) settles: the select on votes ran, or failed
VoteCheck(id, fails) ==
    /\ id \in DOMAIN subs /\ subs[id].pc = "check"
    /\ subs' = [subs EXCEPT ![id] =
                   IF fails THEN VoteDone(@, "Error checking vote status")
                   ELSE IF VotesOf(votes, @.poll, @.user) # {}
                   THEN VoteDone(@, "User has already voted on this poll")
                   ELSE [@ EXCEPT !.pc = "insert"]]
    /\ UNCHANGED <<now, ticks, votes, rlVars, csrfVars, sessVars, mwVars, hookVars, authVars, obsVars, routeVars>>

\* the insert settles: the database ran it, or the request failed before
VoteInsert(id, fails) ==
    LET sub == subs[id]
        out == insertVote(votes, [id |-> id, poll_id |-> sub.poll,
                                  option_id |-> sub.option, user_id |-> sub.user])
    IN  /\ id \in DOMAIN subs /\ subs[id].pc = "insert"
        /\ votes' = IF fails THEN votes ELSE out.table
        /\ subs' = [subs EXCEPT ![id] =
                       VoteDone(@, IF fails THEN "request failed" ELSE out.error)]
        /\ UNCHANGED <<now, ticks, rlVars, csrfVars, sessVars, mwVars, hookVars, authVars, obsVars, routeVars>>

VoteNext ==
    \/ \E fn \in {"submitVote", "castVote"}, user \in Voters, poll \in Polls,
          option \in PollOptions : CallVote(fn, user, poll, option)
    \/ \E id \in 1..MaxSubmissions, ok \in BOOLEAN : VoteGetUser(id, ok)
    \/ \E id \in 1..MaxSubmissions, fails \in BOOLEAN : VoteCheck(id, fails)
    \/ \E id \in 1..MaxSubmissions, fails \in BOOLEAN : VoteInsert(id, fails)

SpecVotes == Init /\ [][VoteNext]_vars

----------------------------------------------------------------------------
(***************************************************************************)
(* The auth route's own limiter (src/app/api/auth/[...route]/route.ts):    *)
(* per client ip, the timestamps of the requests let through in the last   *)
(* minute.  Lines 14-41 run without an await, so they are one step; what   *)
(* follows them (request.json(), the Supabase call) reads and writes       *)
(* nothing of the limiter and is the outcome of the same action.           *)
(***************************************************************************)
RATE_LIMIT_MAX == 5
RATE_LIMIT_WINDOW_MS == 60 * 1000

\* request.headers.get('x-forwarded-for') || 'unknown'
AuthIp(request) ==
    IF request.forwarded.present /\ request.forwarded.value # EmptyString
    THEN request.forwarded.value ELSE Unknown

\* timestamps.filter(timestamp => timestamp > windowStart)
ValidTimestamps(timestamps, windowStart) ==
    SelectSeq(timestamps, LAMBDA timestamp : timestamp > windowStart)

\* lines 17-41 with the limit test off by one (length > RATE_LIMIT_MAX)
POST_rateLimit_QuotaOffByOne(store, ip, t) ==
    LET windowStart == t - RATE_LIMIT_WINDOW_MS
        cleaned == IF ip \notin DOMAIN store THEN MapSet(store, ip, << >>)
                   ELSE MapSet(store, ip, ValidTimestamps(store[ip], windowStart))
    IN  IF Len(cleaned[ip]) > RATE_LIMIT_MAX
        THEN [store |-> cleaned, limited |-> TRUE]
        ELSE [store |-> MapSet(cleaned, ip, Append(cleaned[ip], t)), limited |-> FALSE]

\* lines 17-41 of POST with Date.now() = t: the map they leave and whether
\* they answered 429
POST_rateLimit(store, ip, t) ==
    LET windowStart == t - RATE_LIMIT_WINDOW_MS
        cleaned == IF ip \notin DOMAIN store THEN MapSet(store, ip, << >>)
                   ELSE MapSet(store, ip, ValidTimestamps(store[ip], windowStart))
    IN  IF Len(cleaned[ip]) >= RATE_LIMIT_MAX
        THEN [store |-> cleaned, limited |-> TRUE]
        ELSE [store |-> MapSet(cleaned, ip, Append(cleaned[ip], t)), limited |-> FALSE]

\* what the authentication itself answers: data (200), an auth error or an
\* unknown path (400), a thrown error caught by the handler (500)
AuthOutcomes == {200, 400, 500}

AuthRequests == { [forwarded |-> NoHeader], [forwarded |-> Header(EmptyString)],
                  [forwarded |-> Header(<<"1">>)] }

\* The observer of one ip: the times at which its requests reached
\* authentication, and how many of them lie in the minute that ends at t.
InLastWindow(times, t) ==
    Cardinality({i \in 1..Len(times) :
                    times[i] > t - RATE_LIMIT_WINDOW_MS /\ times[i] <= t})
AuthSeen(obs, ip, t) == IF ip \in DOMAIN obs THEN InLastWindow(obs[ip], t) ELSE 0

POST(request, outcome) ==
    LET ip  == AuthIp(request)
        out == POST_rateLimit(rateLimit, ip, now)
    IN  /\ rateLimit' = out.store
        /\ authLast' = [op |-> "POST", ip |-> ip, seen |-> AuthSeen(authObs, ip, now),
                        status |-> IF out.limited THEN 429 ELSE outcome]
        /\ authObs' = IF out.limited THEN authObs
                      ELSE MapSet(authObs, ip,
                                  Append(IF ip \in DOMAIN authObs THEN authObs[ip] ELSE << >>, now))
        /\ UNCHANGED <<now, ticks, rlVars, csrfVars, sessVars, mwVars, hookVars, voteVars, obsVars, routeVars>>

\* Time passes to the moment a recorded request leaves the window, a
\* millisecond before it or a millisecond after it.  The
\* observer forgets the times that lie a window or more behind: no window
\* that ends at a later request can hold them.
AuthDeadlines ==
    UNION { UNION { {authObs[ip][i] + RATE_LIMIT_WINDOW_MS - 1,
                     authObs[ip][i] + RATE_LIMIT_WINDOW_MS,
                     authObs[ip][i] + RATE_LIMIT_WINDOW_MS + 1} :
                    i \in 1..Len(authObs[ip]) } : ip \in DOMAIN authObs }
AuthTick ==
    /\ ticks < MaxAuthTicks
    /\ \E t \in {d \in AuthDeadlines : d > now} :
          /\ now' = t
          /\ authObs' = [ip \in DOMAIN authObs |->
                            SelectSeq(authObs[ip],
                                      LAMBDA at : at > t - RATE_LIMIT_WINDOW_MS)]
    /\ ticks' = ticks + 1
    /\ authLast' = NoCall
    /\ UNCHANGED <<rateLimit, rlVars, csrfVars, sessVars, mwVars, hookVars, voteVars, obsVars, routeVars>>

AuthNext ==
    \/ \E request \in AuthRequests, outcome \in AuthOutcomes : POST(request, outcome)
    \/ AuthTick

SpecAuth == Init /\ [][AuthNext]_vars

----------------------------------------------------------------------------
(***************************************************************************)
(* Rate limiter: properties                                                *)
(***************************************************************************)
RlCalled == rlLast.op = "checkRateLimit"
RlMax(key) == RATE_LIMITS[key[1]].maxRequests

\* C1: once maxRequests calls have been allowed for a key in one window,
\* every further call for the key made before the window is reset (that is,
\* at any time not past resetTime) returns success=false, remaining=0 and a
\* strictly positive retryAfter.
C1_RejectedWithPositiveRetryAfter ==
    (RlCalled /\ rlLast.seen = RlMax(rlLast.key)) =>
        /\ rlLast.result.success = FALSE
        /\ rlLast.result.remaining = 0
        /\ "retryAfter" \in DOMAIN rlLast.result
        /\ rlLast.result.retryAfter > 0

C4_ExpiredWindowRestarts ==
    (RlCalled /\ rlLast.expired) =>
        /\ rlLast.result.success
        /\ rlLast.result.resetTime = now + RATE_LIMITS[rlLast.type].windowMs
        /\ rlLast.key \in DOMAIN requestCounts
        /\ requestCounts[rlLast.key] =
              [count |-> 1, resetTime |-> now + RATE_LIMITS[rlLast.type].windowMs]

\* a call arrived past the resetTime of a bucket that was full
C4_Witness ==
    /\ RlCalled /\ rlLast.expired
    /\ rlLast.count0 = RlMax(rlLast.key)
    /\ rlLast.result.success

IdCalled == rlLast.op = "getClientId"
\* the requests that yield every identity an IP can give: one header absent,
\* the other one any value
IdFromIp ==
    { getClientId([forwarded |-> h, realIp |-> NoHeader], EmptyString) : h \in IdHeaders } \cup
    { getClientId([forwarded |-> NoHeader, realIp |-> h], EmptyString) : h \in IdHeaders }
C17_NoCollision ==
    (IdCalled /\ rlLast.userId # EmptyString) => rlLast.clientId \notin IdFromIp

\* C17: the client identity is the user id whenever one is supplied;
\* otherwise the first address of x-forwarded-for if that header is present;
\* otherwise the value of x-real-ip if present; otherwise 'unknown'; and an
\* identity derived from a user id is never one derived from an IP.
C17_PrecedenceByPresence ==
    /\ IdCalled =>
          rlLast.clientId =
              IF rlLast.userId # EmptyString THEN UserPrefix \o rlLast.userId
              ELSE IF rlLast.request.forwarded.present
                   THEN IpPrefix \o SplitHead(rlLast.request.forwarded.value)
              ELSE IF rlLast.request.realIp.present
                   THEN IpPrefix \o rlLast.request.realIp.value
              ELSE IpPrefix \o Unknown
    /\ C17_NoCollision

\* C17 as the code has it: a header counts only when it yields a non-empty
\* string.  The identity is the user id when a non-empty one is supplied;
\* otherwise the text of x-forwarded-for before its first comma if the header
\* is present and that text is not empty; otherwise the value of x-real-ip if
\* present and not empty; otherwise 'unknown'; and an identity derived from a
\* user id is never one derived from an IP.
C17_PrecedenceByNonEmptyValue ==
    /\ IdCalled =>
          rlLast.clientId =
              IF rlLast.userId # EmptyString THEN UserPrefix \o rlLast.userId
              ELSE IF rlLast.request.forwarded.present
                      /\ SplitHead(rlLast.request.forwarded.value) # EmptyString
                   THEN IpPrefix \o SplitHead(rlLast.request.forwarded.value)
              ELSE IF rlLast.request.realIp.present
                      /\ rlLast.request.realIp.value # EmptyString
                   THEN IpPrefix \o rlLast.request.realIp.value
              ELSE IpPrefix \o Unknown
    /\ C17_NoCollision

\* x-forwarded-for is present and starts with a comma: x-real-ip decides
C17_Witness ==
    /\ IdCalled /\ rlLast.userId = EmptyString
    /\ rlLast.request.forwarded.present
    /\ rlLast.request.forwarded.value = <<",", "a">>
    /\ rlLast.request.realIp.present
    /\ rlLast.request.realIp.value = <<"a">>
    /\ rlLast.clientId = IpPrefix \o <<"a">>

----------------------------------------------------------------------------
(***************************************************************************)
(* CSRF token store: properties                                            *)
(***************************************************************************)
CsrfValidated == csrfLast.op = "validate"
CsrfKnown(token) == token \in DOMAIN csrfIssued
CsrfOwner(token) == csrfIssued[token].userId
CsrfExpiry(token) == csrfIssued[token].at + TOKEN_EXPIRY

\* C2: a token stored for identity A never validates for an identity B
\* other than A, at any time and after any issue, validate and sweep.
C2_OnlyOwnerValidates ==
    (CsrfValidated /\ csrfLast.result = TRUE) =>
        /\ CsrfKnown(csrfLast.token)
        /\ CsrfOwner(csrfLast.token) = csrfLast.userId

\* an identity presented a live token of another identity and was refused
C2_Witness ==
    /\ CsrfValidated /\ csrfLast.stored
    /\ csrfLast.userId # ""
    /\ CsrfOwner(csrfLast.token) # csrfLast.userId
    /\ now <= CsrfExpiry(csrfLast.token)
    /\ csrfLast.result = FALSE

\* the owner's call answers by the clock alone, and past expiry leaves no record
C5_OwnerResult ==
    (CsrfValidated /\ CsrfKnown(csrfLast.token)
       /\ CsrfOwner(csrfLast.token) = csrfLast.userId) =>
        /\ csrfLast.result = (now <= CsrfExpiry(csrfLast.token))
        /\ (now > CsrfExpiry(csrfLast.token)) =>
              hashToken(csrfLast.token) \notin DOMAIN csrfTokens
\* a record that is gone after its expiry does not come back
C5_StaysAbsent ==
    \A token \in DOMAIN csrfIssued :
        (now > CsrfExpiry(token) /\ hashToken(token) \notin DOMAIN csrfTokens)
            => (hashToken(token) \notin DOMAIN csrfTokens)'
\* C5: for a token issued to U at t0, validateCSRFToken(U, token) returns
\* true at every time up to t0 + TOKEN_EXPIRY and false at every later time;
\* the first validation after expiry removes the record, and the record is
\* absent in every later state.
C5_ValidUntilExpiryThenGone == []C5_OwnerResult /\ [][C5_StaysAbsent]_vars

\* the owner's first validation after expiry found the record and removed it
C5_Witness ==
    /\ CsrfValidated /\ csrfLast.stored /\ csrfLast.changed
    /\ CsrfOwner(csrfLast.token) = csrfLast.userId
    /\ now > CsrfExpiry(csrfLast.token)
    /\ csrfLast.result = FALSE
    /\ hashToken(csrfLast.token) \notin DOMAIN csrfTokens

\* C6: validating an unexpired token is read-only and repeatable: a
\* validateCSRFToken call, by the owner or anyone else, changes the store
\* only when it is the owner's call past expiresAt, and each call by the
\* owner while the record is stored and unexpired returns true.
C6_ValidationReadOnly ==
    CsrfValidated =>
        /\ csrfLast.changed =>
              /\ CsrfKnown(csrfLast.token)
              /\ CsrfOwner(csrfLast.token) = csrfLast.userId
              /\ now > CsrfExpiry(csrfLast.token)
        /\ ( /\ csrfLast.stored
             /\ CsrfOwner(csrfLast.token) = csrfLast.userId
             /\ now <= CsrfExpiry(csrfLast.token) ) => csrfLast.result = TRUE

\* the owner validated in the last millisecond of the token's life, with
\* another identity's token in the store too: true, and nothing changed
C6_Witness ==
    /\ CsrfValidated /\ csrfLast.stored /\ ~csrfLast.changed
    /\ CsrfOwner(csrfLast.token) = csrfLast.userId
    /\ now = CsrfExpiry(csrfLast.token)
    /\ csrfLast.result = TRUE
    /\ Cardinality(DOMAIN csrfTokens) = 2

----------------------------------------------------------------------------
(***************************************************************************)
(* Session activity tracker: properties                                    *)
(***************************************************************************)
SessTracked(u) == u \in DOMAIN sessObs
Inactivity  == [shouldTerminate |-> TRUE, reason |-> "inactivity"]
MaxDuration == [shouldTerminate |-> TRUE, reason |-> "max_duration"]
NotFound    == [shouldTerminate |-> TRUE, reason |-> "not_found"]
KeepSession == [shouldTerminate |-> FALSE]

\* the warning half of C7: with the last activity at t0, the call of
\* shouldShowSessionWarning at t0 + INACTIVITY_TIMEOUT - WARNING_DURATION
\* returns true if none did before, and no record gets a second warning
C7_WarnOnceAt115 ==
    /\ ( /\ sessLast.op = "warn" /\ SessTracked(sessLast.userId)
         /\ now = sessObs[sessLast.userId].last + INACTIVITY_TIMEOUT - WARNING_DURATION
         /\ sessLast.warned0 = 0 ) => sessLast.result = TRUE
    /\ \A u \in DOMAIN sessObs : sessObs[u].warned <= 1

C8_ReasonPerExceededLimit ==
    sessLast.op = "terminate" =>
        LET u == sessLast.userId
        IN  IF u \notin DOMAIN sessionActivities
            THEN sessLast.result = NotFound
            ELSE /\ (now - sessionActivities[u].lastActivity > INACTIVITY_TIMEOUT)
                      => sessLast.result = Inactivity
                 /\ (now - sessionActivities[u].sessionStart > MAX_SESSION_DURATION)
                      => sessLast.result = MaxDuration
                 /\ ( /\ now - sessionActivities[u].sessionStart <= MAX_SESSION_DURATION
                      /\ now - sessionActivities[u].lastActivity <= INACTIVITY_TIMEOUT )
                      => sessLast.result = KeepSession

\* C8 as amended: 'not_found' when the identity has no record, 'inactivity'
\* whenever now - lastActivity exceeds INACTIVITY_TIMEOUT, 'max_duration'
\* whenever now - sessionStart exceeds MAX_SESSION_DURATION and
\* now - lastActivity does not exceed INACTIVITY_TIMEOUT (however recent the
\* last activity), and shouldTerminate=false in every other case.
C8_TerminationReasons ==
    sessLast.op = "terminate" =>
        LET u == sessLast.userId
        IN  IF u \notin DOMAIN sessionActivities
            THEN sessLast.result = NotFound
            ELSE /\ (now - sessionActivities[u].lastActivity > INACTIVITY_TIMEOUT)
                      => sessLast.result = Inactivity
                 /\ ( /\ now - sessionActivities[u].sessionStart > MAX_SESSION_DURATION
                      /\ now - sessionActivities[u].lastActivity <= INACTIVITY_TIMEOUT )
                      => sessLast.result = MaxDuration
                 /\ ( /\ now - sessionActivities[u].sessionStart <= MAX_SESSION_DURATION
                      /\ now - sessionActivities[u].lastActivity <= INACTIVITY_TIMEOUT )
                      => sessLast.result = KeepSession

\* a session past its maximum duration was ended a millisecond after its
\* user's last activity
C8_Witness ==
    /\ sessLast.op = "terminate"
    /\ sessLast.userId \in DOMAIN sessionActivities
    /\ now - sessionActivities[sessLast.userId].lastActivity = 1
    /\ sessLast.result = MaxDuration

\* C9: for one session record with no trackUserActivity in between,
\* shouldShowSessionWarning returns true on exactly one call, the first made
\* when the time left to the inactivity cutoff is at most WARNING_DURATION;
\* every other call returns false.
C9_WarnsExactlyOnce ==
    /\ sessLast.op = "warn" =>
          sessLast.result =
            ( /\ SessTracked(sessLast.userId)
              /\ sessLast.warned0 = 0
              /\ INACTIVITY_TIMEOUT - (now - sessObs[sessLast.userId].last)
                    <= WARNING_DURATION )
    /\ \A u \in DOMAIN sessObs : sessObs[u].warned <= 1

\* a second call inside the warning period, after the one that warned
C9_Witness ==
    /\ sessLast.op = "warn" /\ SessTracked(sessLast.userId)
    /\ sessLast.warned0 = 1
    /\ INACTIVITY_TIMEOUT - (now - sessObs[sessLast.userId].last) <= WARNING_DURATION
    /\ sessLast.result = FALSE

\* C10: across trackUserActivity calls for one identity with no deletion of
\* its record in between, sessionStart keeps the time of the first call and
\* lastActivity is the time of the latest call.
C10_SessionStartKept ==
    \A u \in DOMAIN sessionActivities :
        /\ SessTracked(u)
        /\ sessionActivities[u].sessionStart = sessObs[u].first
        /\ sessionActivities[u].lastActivity = sessObs[u].last

\* trackUserActivity refreshed a record created at an earlier time
C10_Witness ==
    /\ sessLast.op = "track" /\ sessLast.had
    /\ sessionActivities[sessLast.userId].lastActivity = now
    /\ sessionActivities[sessLast.userId].sessionStart < now

SessValidated == sessLast.op = "validate"
\* the external credential expires in less than REFRESH_THRESHOLD
NearExpiry == sessLast.lookup.kind = "session"
              /\ sessLast.lookup.expires_at * 1000 - now < REFRESH_THRESHOLD

\* C18: validateAndRefreshSession reports shouldRefresh=true whenever the
\* credential's time to expiry is below REFRESH_THRESHOLD, whatever the
\* inactivity and maximum-duration checks say about the identity.
C18_RefreshWheneverNearExpiry ==
    (SessValidated /\ NearExpiry) => sessLast.result.shouldRefresh

\* C18 as the code has it: shouldRefresh is true exactly when the session
\* passed the inactivity and maximum-duration checks (isValid=true) and the
\* credential's time to expiry is below REFRESH_THRESHOLD; a session that is
\* terminated, missing or failed to load reports shouldRefresh=false.
C18_RefreshOnlyWhenValid ==
    SessValidated =>
        (sessLast.result.shouldRefresh <=> (sessLast.result.isValid /\ NearExpiry))

\* a valid session whose credential is inside the refresh lead time, and not
\* for want of an expiry time
C18_Witness ==
    /\ SessValidated /\ sessLast.result.isValid /\ sessLast.result.shouldRefresh
    /\ sessLast.lookup.expires_at > 0
    /\ now > 1

----------------------------------------------------------------------------
(***************************************************************************)
(* withRateLimit: properties                                               *)
(***************************************************************************)
\* C11: when the rate-limit check throws inside withRateLimit, the wrapped
\* handler is invoked and what the wrapper returns is the handler's own
\* response; a fault of the limiter never yields a 429.
C11_FailsOpen ==
    (wrl.op # "none" /\ wrl.threw) =>
        /\ wrl.handlerCalls >= 1
        /\ wrl.op = "done" => /\ wrl.response = wrl.handlerOut
                              /\ wrl.response.kind = "response" => wrl.response.status # 429
C11_Witness ==
    /\ wrl.op = "done" /\ wrl.threw
    /\ wrl.response.kind = "response" /\ wrl.response.status = 200
    /\ \E k \in DOMAIN requestCounts : requestCounts[k].count >= RlMax(k)

\* C15: every rejection by the rate limiter yields a 429 that carries
\* X-RateLimit-Limit, X-RateLimit-Remaining = 0, X-RateLimit-Reset and
\* Retry-After; every response to an allowed request carries the first three
\* headers and no Retry-After.
RateLimitHeaders == {"X-RateLimit-Limit", "X-RateLimit-Remaining", "X-RateLimit-Reset"}
C15_ResponseHeaders ==
    (wrl.op = "done" /\ ~wrl.threw) =>
        IF ~wrl.result.success
        THEN /\ wrl.response.status = 429
             /\ RateLimitHeaders \cup {"Retry-After"} \subseteq DOMAIN wrl.response.headers
             /\ wrl.response.headers["X-RateLimit-Remaining"] = toString(0)
        ELSE wrl.response.kind = "response" =>
                /\ RateLimitHeaders \subseteq DOMAIN wrl.response.headers
                /\ "Retry-After" \notin DOMAIN wrl.response.headers

\* C27: withRateLimit invokes the wrapped handler at most once for one
\* incoming request on every path, also when the handler throws or rejects,
\* and never for a request that the limiter rejected.
C27_HandlerAtMostOnce ==
    wrl.op # "none" =>
        /\ wrl.handlerCalls <= 1
        /\ (wrl.result # NoCall /\ ~wrl.result.success) => wrl.handlerCalls = 0

----------------------------------------------------------------------------
(***************************************************************************)
(* withCSRFProtection and withSessionValidation: properties                *)
(***************************************************************************)
GuardCsrf == guardLast.op = "withCSRFProtection"
GuardSess == guardLast.op = "withSessionValidation"
GuardDone == guardLast.op # "none" /\ guardLast.pc = "done"

\* C12: when the session lookup or a later step of validateCSRFTokenFromRequest
\* or of validateAndRefreshSession throws, the function returns
\* isValid=false, the guard answers with its rejection (403 for
\* withCSRFProtection, 401 for withSessionValidation) and the wrapped handler
\* is not invoked.
C12_GuardsFailClosed ==
    (guardLast.op # "none" /\ guardLast.fault) =>
        /\ guardLast.validated
        /\ guardLast.validation.isValid = FALSE
        /\ guardLast.handlerCalls = 0
        /\ guardLast.pc = "done"
        /\ guardLast.response.status = IF GuardCsrf THEN 403 ELSE 401
C12_Witness ==
    /\ GuardCsrf /\ guardLast.fault /\ guardLast.pc = "done"
    /\ guardLast.response.status = 403
    /\ csrfTokens # EmptyMap

\* C13: with the default options, withCSRFProtection invokes the handler
\* without validating a token exactly when the method is none of POST, PUT,
\* PATCH and DELETE; for these four the handler is invoked only after
\* validateCSRFTokenFromRequest returned isValid=true, and otherwise the
\* guard returns a 403 without invoking it.
StateChanging == {"POST", "PUT", "PATCH", "DELETE"}
C13_DefaultMethods ==
    (GuardCsrf /\ guardLast.default) =>
        /\ (guardLast.handlerCalls >= 1 /\ ~guardLast.validated)
              <=> guardLast.method \notin StateChanging
        /\ guardLast.method \in StateChanging =>
              /\ guardLast.handlerCalls >= 1 => guardLast.validated /\ guardLast.validation.isValid
              /\ (guardLast.validated /\ ~guardLast.validation.isValid) =>
                    /\ guardLast.pc = "done"
                    /\ guardLast.response.status = 403
                    /\ guardLast.handlerCalls = 0
C13_Witness ==
    /\ GuardCsrf /\ guardLast.default /\ guardLast.method = "PATCH"
    /\ guardLast.validated /\ guardLast.validation.isValid
    /\ guardLast.handlerCalls = 1 /\ guardLast.pc = "done"
    /\ guardLast.response.kind = "response" /\ guardLast.response.status = 200

\* the code of the 403 that the guard returns for a validation failing with `error`
CsrfFailureCode(error) ==
    withCSRFProtection_validated(
        GuardEntered("withCSRFProtection", TRUE,
                     [method |-> "POST", header |-> NoToken, cookie |-> NoToken]),
        [isValid |-> FALSE, error |-> error]).response.body.code

\* C14: the 403 returned when no token was provided carries an error code
\* that differs from the code of the 403 returned for an invalid or expired
\* token.
C14_CodeTellsMissingFromInvalid ==
    (GuardCsrf /\ guardLast.pc = "done" /\ guardLast.validated
       /\ ~guardLast.validation.isValid
       /\ guardLast.validation.error = "CSRF token not provided") =>
        guardLast.response.body.code # CsrfFailureCode("Invalid or expired CSRF token")

----------------------------------------------------------------------------
(***************************************************************************)
(* useCSRF: properties                                                     *)
(***************************************************************************)
\* C19: one call of protectedFetch sends the request at most twice; it
\* sends a second time only when the first answer is a 403 whose body code
\* is CSRF_INVALID, and only after the fetchCSRFToken it then awaits has
\* completed; the answer to the second send is the call's result, with no
\* further retry.
C19_AtMostOneRetry ==
    /\ Len(hook.sent) <= 2
    /\ Len(hook.sent) = 2 =>
          /\ hook.first.kind = "response"
          /\ hook.first.status = 403
          /\ hook.first.code = "CSRF_INVALID"
          /\ hook.refetched
          /\ hook.op \in {"send", "done"}
          /\ hook.op = "done" => hook.result = hook.last
    /\ (hook.op = "done" /\ Len(hook.sent) = 1) => hook.result = hook.first

\* the retry was answered with CSRF_INVALID again, and that answer was returned
C19_Witness ==
    /\ hook.op = "done" /\ Len(hook.sent) = 2
    /\ hook.result.kind = "response"
    /\ hook.result.status = 403 /\ hook.result.code = "CSRF_INVALID"

\* C28: for a signed-in user whose hook holds no token, getCSRFToken returns
\* the token obtained by the fetch it triggers when that fetch succeeds, so
\* the request goes out with it; and the retry that protectedFetch sends
\* after a CSRF_INVALID answer carries the token fetched anew, not the token
\* of the failed attempt.
C28_SendsFetchedToken ==
    /\ ( /\ hook.op = "send" /\ Len(hook.sent) = 1
         /\ hook.user /\ hook.closure = NoToken /\ hook.csrfToken # NoToken )
        => hook.sent[1] = hook.csrfToken
    /\ ( /\ hook.op = "send" /\ Len(hook.sent) = 2
         /\ hook.user /\ hook.refetched /\ hook.csrfToken # NoToken )
        => hook.sent[2] = hook.csrfToken

----------------------------------------------------------------------------
(***************************************************************************)
(* Votes: properties                                                       *)
(***************************************************************************)
\* the submissions of `user` on `poll` that reported success
Succeeded(poll, user) ==
    {i \in DOMAIN subs : /\ subs[i].poll = poll /\ subs[i].user = user
                         /\ subs[i].pc = "done" /\ subs[i].success}

----------------------------------------------------------------------------
(***************************************************************************)
(* Rate limiter: properties of a sequence of calls                         *)
(***************************************************************************)
RlWindow(key) == RATE_LIMITS[key[1]].windowMs

\* the calls allowed for key at the times from..to
AllowedInSpan(key, from, to) ==
    Cardinality({i \in 1..Len(rlLog[key]) : rlLog[key][i] >= from /\ rlLog[key][i] <= to})

SameBucket(key) ==
    IF key \in DOMAIN requestCounts
    THEN key \in DOMAIN requestCounts' /\ requestCounts'[key] = requestCounts[key]
    ELSE key \notin DOMAIN requestCounts'

\* C30: a rejected checkRateLimit call leaves the bucket of its key as it
\* was (count and resetTime alike: a rejection never extends the window),
\* and a call in which the sweep does not run leaves the bucket of every
\* other key as it was.
C30_CallTouchesOwnBucketOnly ==
    [][RlCalled' =>
          /\ ~rlLast'.result.success
                => rlLast'.key \in DOMAIN requestCounts /\ SameBucket(rlLast'.key)
          /\ ~rlLast'.sweep
                => \A key \in (DOMAIN requestCounts \cup DOMAIN requestCounts') \ {rlLast'.key} :
                      SameBucket(key)]_vars

\* a call without sweep was rejected while the map held the expired bucket
\* of another key
C30_Witness ==
    /\ RlCalled /\ ~rlLast.sweep /\ ~rlLast.result.success
    /\ \E key \in DOMAIN requestCounts :
          key # rlLast.key /\ now > requestCounts[key].resetTime

----------------------------------------------------------------------------
(***************************************************************************)
(* Session tracker: the life of the warningShown flag                      *)
(***************************************************************************)
WarningShown(store, u) == u \in DOMAIN store /\ store[u].warningShown

C26_FirstRequestAccepted ==
    [][( /\ sessLast'.op = "validate"
         /\ sessLast'.lookup.kind = "session"
         /\ sessLast'.lookup.expires_at * 1000 > now
         /\ sessLast'.lookup.userId \notin DOMAIN sessionActivities )
        => /\ sessLast'.result.isValid
           /\ sessLast'.lookup.userId \in DOMAIN sessionActivities']_vars

----------------------------------------------------------------------------
(***************************************************************************)
(* The auth route's limiter: properties                                    *)
(***************************************************************************)
AuthCalled == authLast.op = "POST"

\* C21: for every ip and every time t, at most RATE_LIMIT_MAX requests let
\* through to authentication have their time in the RATE_LIMIT_WINDOW_MS
\* up to t (after t - 60 s, up to t; a window that holds a given set of
\* requests still holds it when it ends at the last of them, so the windows
\* that end at a request or now are the ones to count); and a request that
\* arrives when RATE_LIMIT_MAX such requests exist is answered 429 and leaves
\* the map with the entries it had.
C21_AtMostMaxPerWindow ==
    /\ \A ip \in DOMAIN authObs :
          \A t \in {now} \cup {authObs[ip][i] : i \in 1..Len(authObs[ip])} :
             InLastWindow(authObs[ip], t) <= RATE_LIMIT_MAX
    /\ AuthCalled /\ authLast.seen >= RATE_LIMIT_MAX
          => /\ authLast.status = 429
             /\ Len(rateLimit[authLast.ip]) = authLast.seen
             /\ \A i \in 1..Len(rateLimit[authLast.ip]) :
                   rateLimit[authLast.ip][i] = authObs[authLast.ip][i]

\* an ip with RATE_LIMIT_MAX requests let through in the last minute is
\* answered 429 while another ip's requests still pass
C21_Witness ==
    /\ AuthCalled /\ authLast.status = 429 /\ authLast.seen = RATE_LIMIT_MAX
    /\ ticks > 0
    /\ \E ip \in DOMAIN authObs : ip # authLast.ip /\ Len(authObs[ip]) > 0

----------------------------------------------------------------------------
(***************************************************************************)
(* validateCSRFTokenFromRequest: which token it validates                  *)
(***************************************************************************)
\* a call that got a session and read the request without a fault
CsrfFromRequest ==
    /\ csrfLast.op = "fromRequest"
    /\ csrfLast.lookup.kind = "session" /\ ~csrfLast.lookup.readThrows

NonEmpty(field) == field.present /\ field.value # EmptyString

\* the token was generated for the user and has not expired
TokenGoodFor(token, userId) ==
    /\ CsrfKnown(token) /\ CsrfOwner(token) = userId /\ now <= CsrfExpiry(token)

\* C25: for a request of a signed-in user, validateCSRFTokenFromRequest
\* validates the X-CSRF-Token header value when the header is present and
\* non-empty, and the csrf-token cookie value only when it is not: the
\* answer is that of the header token whatever the cookie holds (so an
\* invalid header token with a valid cookie token is rejected), and a
\* request with neither is rejected with 'CSRF token not provided', the
\* store left as it was.
C25_HeaderBeforeCookie ==
    CsrfFromRequest =>
       LET header == csrfLast.request.header
           cookie == csrfLast.request.cookie
           userId == csrfLast.lookup.userId
       IN  /\ NonEmpty(header)
              => csrfLast.result.isValid = TokenGoodFor(header.value, userId)
           /\ ~NonEmpty(header) /\ NonEmpty(cookie)
              => csrfLast.result.isValid = TokenGoodFor(cookie.value, userId)
           /\ ~NonEmpty(header) /\ ~NonEmpty(cookie)
              => /\ csrfLast.result = [isValid |-> FALSE, error |-> "CSRF token not provided"]
                 /\ ~csrfLast.changed

\* a request with a header token that is not the user's and a cookie token
\* that is was rejected
C25_Witness ==
    /\ CsrfFromRequest
    /\ NonEmpty(csrfLast.request.header) /\ NonEmpty(csrfLast.request.cookie)
    /\ ~TokenGoodFor(csrfLast.request.header.value, csrfLast.lookup.userId)
    /\ TokenGoodFor(csrfLast.request.cookie.value, csrfLast.lookup.userId)
    /\ csrfLast.result = [isValid |-> FALSE, error |-> "Invalid or expired CSRF token"]

=============================================================================
